---------------------------- MODULE Spec2Model ----------------------------
(***************************************************************************)
(* A model of the trend-detection and trust/bot-scoring engine of          *)
(* lawrab/veracity:                                                        *)
(*   backend/app/services/scoring/trust_scorer.py      (TrustScorer)       *)
(*   backend/app/services/processing/trend_detector.py (TrendDetector)     *)
(*                                                                         *)
(* Numbers.  Python floats are modelled as exact rationals <<n, d>> with   *)
(* d > 0, kept in lowest terms.  Times are whole minutes.                  *)
(* Python values that may be a number, None, or raise when used are        *)
(* tagged triples <<tag, n, d>>.                                           *)
(***************************************************************************)
EXTENDS Integers, Sequences, FiniteSets, TLC

VARIABLES
    unit,      \* which entry point this behaviour exercises
    story,     \* TrustScorer.calculate_score: the story argument
    now,       \* the wall clock, in minutes
    tpc,       \* calculate_score: "idle" | "done"
    tresult,   \* calculate_score: what the call gave back
    tprev,     \* calculate_score: what the call before this one gave back
    bposts,    \* TrustScorer.detect_bots: the posts argument
    bpc,       \* detect_bots: "idle" | "done"
    bresult,   \* detect_bots: what the call gave back
    posts,     \* TrendDetector.detect_trends: the posts argument
    rounding,  \* how numpy's float rounding settles an exact tie on this batch
    partition, \* the communities networkx computes for this batch's graph
    dpc,       \* detect_trends: the coroutine's position
    temporal_groups,   \* detect_trends locals, step by step
    content_clusters,
    keyword_trends,
    velocity_trends,
    network_trends,
    detected_trends,
    dresult,   \* detect_trends: what the call gave back
    dprev,     \* detect_trends: what the call before this one gave back
    article,     \* TrustScorer.update_with_correlation: the article argument
    correlation, \* update_with_correlation: the correlation argument
    upc,         \* update_with_correlation: "idle" | "done"
    uresult,     \* update_with_correlation: what the call gave back
    candidate, \* TrendDetector._calculate_trend_score: the trend argument
    cpc,       \* _calculate_trend_score: "idle" | "done"
    cscore,    \* _calculate_trend_score: what the call gave back
    gposts,      \* TrendDetector._group_posts_by_time: the posts argument
    granularity, \* _group_posts_by_time: the window_minutes argument
    gpc,         \* _group_posts_by_time: "idle" | "done"
    gresult,     \* _group_posts_by_time: what the call gave back
    config,      \* TrendDetector: min_mentions, velocity_threshold, similarity_threshold
    running,       \* IngestionManager.running
    collection,    \* the processed posts of the last two hours in social_media_posts
    ipc,           \* each _detect_trends task's position
    ticks,         \* the number of sleeps the _detect_trends tasks have completed
    recent_posts,  \* each _detect_trends task's recent_posts
    stored,        \* the trends _store_trend was called with, in order
    detections     \* the runs of detect_trends: task, batch, trends

trustVars == <<story, now, tpc, tresult, tprev>>
botVars   == <<bposts, bpc, bresult>>
trendVars == <<config, posts, rounding, partition, dpc, temporal_groups,
               content_clusters, keyword_trends, velocity_trends, network_trends,
               detected_trends, dresult, dprev>>
corrVars  == <<article, correlation, upc, uresult>>
scoreVars == <<candidate, cpc, cscore>>
groupVars == <<gposts, granularity, gpc, gresult>>
ingestVars == <<running, collection, ipc, ticks, recent_posts, stored, detections>>
vars == <<unit, trustVars, botVars, trendVars, corrVars, scoreVars, groupVars,
          ingestVars>>

----------------------------------------------------------------------------
(* Exact rational arithmetic.                                              *)

RECURSIVE GCD(_, _)
GCD(a, b) == IF b = 0 THEN a ELSE GCD(b, a % b)

Abs(x) == IF x < 0 THEN -x ELSE x

\* n/d in lowest terms with a positive denominator (d # 0).
Rat(n, d) ==
    LET g == GCD(Abs(n), Abs(d))
        s == IF d < 0 THEN -1 ELSE 1
    IN  <<(s * n) \div g, (s * d) \div g>>

RInt(k)    == <<k, 1>>
RAdd(x, y) == Rat(x[1] * y[2] + y[1] * x[2], x[2] * y[2])
RSub(x, y) == Rat(x[1] * y[2] - y[1] * x[2], x[2] * y[2])
RMul(x, y) == Rat(x[1] * y[1], x[2] * y[2])
RDiv(x, y) == Rat(x[1] * y[2], x[2] * y[1])
RLt(x, y)  == x[1] * y[2] < y[1] * x[2]
RLe(x, y)  == x[1] * y[2] <= y[1] * x[2]
RMin(x, y) == IF RLe(x, y) THEN x ELSE y
RMax(x, y) == IF RLe(x, y) THEN y ELSE x

\* Python's round(x, 1): to the nearest tenth, ties to the even tenth.
Round1(x) ==
    LET t  == 10 * x[1]
        q  == t \div x[2]
        r2 == 2 * (t % x[2])
        k  == IF r2 < x[2] THEN q
              ELSE IF r2 > x[2] THEN q + 1
              ELSE IF q % 2 = 0 THEN q ELSE q + 1
    IN  Rat(k, 10)

----------------------------------------------------------------------------
(* Python values.                                                          *)

None    == <<"none", 0, 1>>       \* None
Exc     == <<"exc", 0, 1>>        \* evaluation raised an Exception
Missing == <<"missing", 0, 1>>    \* the attribute does not exist
NotNum  == <<"str", 0, 1>>        \* a value of the wrong type (a str)
Val(r)  == <<"val", r[1], r[2]>>  \* the float r
IsVal(v) == v[1] = "val"
Num(v)   == <<v[2], v[3]>>

\* try: ... except Exception: return None
CatchNone(v) == IF v = Exc THEN None ELSE v

\* A str of n characters, and the absent description.
Str(n)  == [i \in 1..n |-> "x"]
NoDesc  == <<"none", <<>>>>
Desc(s) == <<"str", s>>

SeqRange(s) == {s[k] : k \in 1..Len(s)}

----------------------------------------------------------------------------
(* TrustScorer (trust_scorer.py).                                          *)

SignalOrder == <<"source_credibility", "velocity_pattern",
                 "cross_platform_correlation", "engagement_authenticity",
                 "temporal_consistency", "content_quality">>
SignalNames == SeqRange(SignalOrder)

signal_weights ==
    [s \in SignalNames |->
        CASE s = "source_credibility"         -> Rat(25, 100)
          [] s = "velocity_pattern"           -> Rat(20, 100)
          [] s = "cross_platform_correlation" -> Rat(20, 100)
          [] s = "engagement_authenticity"    -> Rat(15, 100)
          [] s = "temporal_consistency"       -> Rat(10, 100)
          [] s = "content_quality"            -> Rat(10, 100)]

\* The bodies of the six analysers: Exc where the body's try block raises.
source_credibility_body(s) == Val(Rat(7, 10))

\* velocity_pattern_body with the thresholds taken inclusively.
velocity_pattern_inclusive(s) ==
    LET velocity == s.velocity IN
    IF velocity = Missing THEN Exc
    ELSE IF velocity = None THEN None
    ELSE IF ~IsVal(velocity) THEN Exc
    ELSE IF RLe(Num(velocity), Rat(1, 10)) THEN Val(Rat(8, 10))
    ELSE IF RLe(Num(velocity), RInt(1)) THEN Val(Rat(9, 10))
    ELSE IF RLe(Num(velocity), RInt(10)) THEN Val(Rat(6, 10))
    ELSE Val(Rat(3, 10))

velocity_pattern_body(s) ==
    LET velocity == s.velocity IN
    IF velocity = Missing THEN Exc              \* AttributeError
    ELSE IF velocity = None THEN None
    ELSE IF ~IsVal(velocity) THEN Exc           \* TypeError: '<' on a str
    ELSE IF RLt(Num(velocity), Rat(1, 10)) THEN Val(Rat(8, 10))
    ELSE IF RLt(Num(velocity), RInt(1)) THEN Val(Rat(9, 10))
    ELSE IF RLt(Num(velocity), RInt(10)) THEN Val(Rat(6, 10))
    ELSE Val(Rat(3, 10))

cross_platform_body(s) == Val(Rat(75, 100))

engagement_authenticity_body(s) == Val(Rat(8, 10))

\* hours_since = (now - created_at).total_seconds() / 3600
temporal_consistency_body(s, clock) ==
    LET created_at == s.created_at IN
    IF ~IsVal(created_at) THEN Exc      \* None/str .replace(tzinfo=...) raises
    ELSE LET hours_since == Rat(clock - created_at[2], 60) IN
         IF RLt(hours_since, RInt(1)) THEN Val(Rat(6, 10))
         ELSE IF RLt(hours_since, RInt(24)) THEN Val(Rat(8, 10))
         ELSE Val(Rat(9, 10))

\* content_quality_body with the thresholds taken inclusively.
content_quality_inclusive(s) ==
    LET description == s.description IN
    IF description[1] \notin {"none", "str"} THEN Exc
    ELSE LET content_length ==
                 IF description[1] = "none" THEN 0 ELSE Len(description[2])
         IN  IF content_length <= 50 THEN Val(Rat(4, 10))
             ELSE IF content_length <= 200 THEN Val(Rat(6, 10))
             ELSE IF content_length <= 1000 THEN Val(Rat(8, 10))
             ELSE Val(Rat(9, 10))

content_quality_body(s) ==
    LET description == s.description IN
    IF description[1] \notin {"none", "str"} THEN Exc   \* missing, or len(int)
    ELSE LET content_length ==
                 IF description[1] = "none" THEN 0 ELSE Len(description[2])
         IN  IF content_length < 50 THEN Val(Rat(4, 10))
             ELSE IF content_length < 200 THEN Val(Rat(6, 10))
             ELSE IF content_length < 1000 THEN Val(Rat(8, 10))
             ELSE Val(Rat(9, 10))

\* Each analyser wraps its body in try/except Exception: return None.
_calculate_source_credibility(s)       == CatchNone(source_credibility_body(s))
_analyze_velocity_pattern(s)           == CatchNone(velocity_pattern_body(s))
_analyze_cross_platform_correlation(s) == CatchNone(cross_platform_body(s))
_analyze_engagement_authenticity(s)    == CatchNone(engagement_authenticity_body(s))
_analyze_temporal_consistency(s, clock) ==
    CatchNone(temporal_consistency_body(s, clock))
_analyze_content_quality(s)            == CatchNone(content_quality_body(s))

\* Whether an exception was raised anywhere while scoring the story.
ExceptionOccurred(s, clock) ==
    Exc \in {source_credibility_body(s), velocity_pattern_body(s),
             cross_platform_body(s), engagement_authenticity_body(s),
             temporal_consistency_body(s, clock), content_quality_body(s)}

\* ComputeSignals with the three analysers that read nothing of the story
\* reporting no data.
ComputeSignalsDataOnly(s, clock) ==
    [k \in SignalNames |->
        CASE k = "source_credibility"         -> None
          [] k = "velocity_pattern"           -> _analyze_velocity_pattern(s)
          [] k = "cross_platform_correlation" -> None
          [] k = "engagement_authenticity"    -> None
          [] k = "temporal_consistency"       -> _analyze_temporal_consistency(s, clock)
          [] k = "content_quality"            -> _analyze_content_quality(s)]

ComputeSignals(s, clock) ==
    [k \in SignalNames |->
        CASE k = "source_credibility"         -> _calculate_source_credibility(s)
          [] k = "velocity_pattern"           -> _analyze_velocity_pattern(s)
          [] k = "cross_platform_correlation" -> _analyze_cross_platform_correlation(s)
          [] k = "engagement_authenticity"    -> _analyze_engagement_authenticity(s)
          [] k = "temporal_consistency"       -> _analyze_temporal_consistency(s, clock)
          [] k = "content_quality"            -> _analyze_content_quality(s)]

\* value_percentage = round(value * 100, 1), with the signal's label.
_generate_signal_explanation(signal_type, value) ==
    IF value = None
    THEN [text |-> signal_type, pct |-> None]
    ELSE [text |-> signal_type,
          pct  |-> Val(Round1(RMul(Num(value), RInt(100))))]

RECURSIVE RSumWeights(_)
RSumWeights(order) ==
    IF order = <<>> THEN RInt(0)
    ELSE RAdd(signal_weights[Head(order)], RSumWeights(Tail(order)))

\* The loop over signals.items(): composite_score, total_weight, explanations.
RECURSIVE Accumulate(_, _, _)
Accumulate(order, signals, acc) ==
    IF order = <<>> THEN acc
    ELSE LET signal_type == Head(order)
             value       == signals[signal_type]
         IN  IF value # None
             THEN Accumulate(Tail(order), signals,
                    [composite_score |->
                        RAdd(acc.composite_score,
                             RMul(Num(value), signal_weights[signal_type])),
                     total_weight |->
                        RAdd(acc.total_weight, signal_weights[signal_type]),
                     explanations |->
                        Append(acc.explanations,
                               _generate_signal_explanation(signal_type, value))])
             ELSE Accumulate(Tail(order), signals, acc)

\* FinalScore normalised by the weights of all six signals, null ones too.
FinalScoreAllWeights(signals) ==
    LET acc == Accumulate(SignalOrder, signals,
                 [composite_score |-> RInt(0), total_weight |-> RInt(0),
                  explanations |-> <<>>])
        all == RSumWeights(SignalOrder)
    IN  RMax(RInt(0), RMin(RInt(1), RDiv(acc.composite_score, all)))

\* final_score: normalised, then clamped to [0, 1].
FinalScore(signals) ==
    LET acc == Accumulate(SignalOrder, signals,
                 [composite_score |-> RInt(0), total_weight |-> RInt(0),
                  explanations |-> <<>>])
        raw == IF RLt(RInt(0), acc.total_weight)
               THEN RDiv(acc.composite_score, acc.total_weight)
               ELSE Rat(1, 2)
    IN  RMax(RInt(0), RMin(RInt(1), raw))

\* ScorePercentage without the rounding to one decimal.
ScorePercentageUnrounded(final_score) == RMul(final_score, RInt(100))

ScorePercentage(final_score) == Round1(RMul(final_score, RInt(100)))

_calculate_confidence(signals) ==
    LET available_signals == Cardinality({k \in DOMAIN signals : signals[k] # None})
        total_signals     == Cardinality(DOMAIN signals)
    IN  RMin(RInt(1), Rat(available_signals, total_signals))

ErrorText == "Error calculating trust score"

\* The except branch of calculate_score; logging it reads story.id.
DegradedResult(s, clock) ==
    IF s.id = Missing
    THEN [status |-> "raised", score |-> RInt(0), score_percentage |-> RInt(0),
          signals |-> [k \in {} |-> None], explanation |-> <<>>,
          calculated_at |-> clock, confidence |-> RInt(0)]
    ELSE [status |-> "returned", score |-> Rat(1, 2),
          score_percentage |-> RInt(50),
          signals |-> [k \in {} |-> None],
          explanation |-> <<[text |-> ErrorText, pct |-> None]>>,
          calculated_at |-> clock, confidence |-> RInt(0)]

ScoredResult(s, clock) ==
    LET signals == ComputeSignals(s, clock)
        acc     == Accumulate(SignalOrder, signals,
                     [composite_score |-> RInt(0), total_weight |-> RInt(0),
                      explanations |-> <<>>])
        final_score == FinalScore(signals)
    IN  [status |-> "returned", score |-> final_score,
         score_percentage |-> ScorePercentage(final_score),
         signals |->
            [k \in SignalNames |->
                [value |-> signals[k], weight |-> signal_weights[k],
                 contribution |->
                    IF signals[k] # None
                    THEN RMul(Num(signals[k]), signal_weights[k])
                    ELSE RInt(0)]],
         explanation |-> acc.explanations,
         calculated_at |-> clock,
         confidence |-> _calculate_confidence(signals)]

\* An exception reaches calculate_score's own handler only when a step of
\* its try block outside the analysers' handlers raises.
TryBlockRaises(s, clock) == Exc \in {ComputeSignals(s, clock)[k] : k \in SignalNames}

\* calculate_score with an explanations list that lives on the scorer and
\* is never cleared between calls.
calculate_score_keeping_explanations(s, clock) ==
    IF TryBlockRaises(s, clock) THEN DegradedResult(s, clock)
    ELSE [ScoredResult(s, clock) EXCEPT !.explanation = tprev.explanation \o @]

calculate_score_result(s, clock) ==
    IF TryBlockRaises(s, clock) THEN DegradedResult(s, clock)
    ELSE ScoredResult(s, clock)

\* The inputs of calculate_score.
Clocks == {3000}
Ages == {-5, 30, 59, 60, 720, 1439, 1440, 2880}
Velocities ==
    {None, Missing, NotNum} \cup
    {Val(Rat(n, 100)) :
        n \in {-100, 0, 5, 9, 10, 50, 99, 100, 500, 999, 1000, 1001, 2000}}
DescLengths == {0, 5, 49, 50, 199, 200, 999, 1000, 1001}
Descriptions ==
    {NoDesc, <<"missing", <<>>>>, <<"int", <<>>>>} \cup
    {Desc(Str(n)) : n \in DescLengths}
CreatedAts(clock) == {None, NotNum} \cup {Val(RInt(clock - a)) : a \in Ages}
Stories(clock) ==
    [id : {Val(RInt(1)), Missing}, velocity : Velocities,
     created_at : CreatedAts(clock), description : Descriptions]

NoResult ==
    [status |-> "none", score |-> RInt(0), score_percentage |-> RInt(0),
     signals |-> [k \in {} |-> None], explanation |-> <<>>,
     calculated_at |-> 0, confidence |-> RInt(0)]

TrustIdle ==
    /\ story = [id |-> Missing, velocity |-> None, created_at |-> None,
                description |-> NoDesc]
    /\ now = 0
    /\ tpc = "off"
    /\ tresult = NoResult
    /\ tprev = NoResult

InitTrust ==
    /\ unit = "trust"
    /\ now \in Clocks
    /\ story \in Stories(now)
    /\ tpc = "idle"
    /\ tresult = NoResult
    /\ tprev = NoResult

\* await trust_scorer.calculate_score(story)
calculate_score ==
    /\ unit = "trust"
    /\ tpc = "idle"
    /\ tresult' = calculate_score_result(story, now)
    /\ tpc' = "done"
    /\ UNCHANGED <<unit, story, now, tprev, botVars, trendVars, corrVars, scoreVars, groupVars,
                   ingestVars>>

\* The caller takes the result and scores the story again.
ScoreAgain ==
    /\ unit = "trust"
    /\ tpc = "done"
    /\ tprev' = tresult
    /\ tresult' = NoResult
    /\ tpc' = "idle"
    /\ UNCHANGED <<unit, story, now, botVars, trendVars, corrVars, scoreVars, groupVars,
                   ingestVars>>

NextTrust == calculate_score \/ ScoreAgain

----------------------------------------------------------------------------
(* TrustScorer.detect_bots.                                                *)
(* A post of the batch is None (isNone) or a dict:                         *)
(*   author      "<absent>" (no key), "<None>" (the value None) or a name  *)
(*   has_created_at   whether the key "created_at" is present              *)
(*   engagement  "absent" (no key), "none" (the value None) or "dict",     *)
(*               with likes and retweets                                   *)
(*   content     <<"absent" | "none" | "str", characters>>                 *)

\* Python's round(x, 3).
Round3(x) ==
    LET t  == 1000 * x[1]
        q  == t \div x[2]
        r2 == 2 * (t % x[2])
        k  == IF r2 < x[2] THEN q
              ELSE IF r2 > x[2] THEN q + 1
              ELSE IF q % 2 = 0 THEN q ELSE q + 1
    IN  Rat(k, 1000)

\* The sum of a list of floats, by halves.
RECURSIVE RSum(_)
RSum(s) ==
    IF s = <<>> THEN RInt(0)
    ELSE IF Len(s) = 1 THEN s[1]
    ELSE LET h == Len(s) \div 2
         IN  RAdd(RSum(SubSeq(s, 1, h)), RSum(SubSeq(s, h + 1, Len(s))))

\* statistics.mean
Mean(s) == RDiv(RSum(s), RInt(Len(s)))

Prefix(s, n) == IF Len(s) <= n THEN s ELSE SubSeq(s, 1, n)

NewAccount ==
    [post_count |-> 0, post_times |-> 0, engagement_ratios |-> <<>>]

\* What one pass of the collection loop does with a post:
\* "exc" when an expression of the loop body raises on it.
PostCollectRaises(post) ==
    \/ post.isNone                   \* None.get(...)
    \/ post.engagement = "none"      \* None.get("likes", 0)

AccountKey(post) == IF post.author = "<absent>" THEN "unknown" ELSE post.author

\* The elements of a sequence at their first appearance, each with its
\* index: the insertion order of a dict keyed by them.
FirstOccurrences(s) ==
    SelectSeq([k \in 1..Len(s) |-> <<k, s[k]>>],
              LAMBDA e : \A j \in 1..(e[1] - 1) : s[j] # e[2])

\* for post in posts: ... (lines 325-339).  accounts keeps the dict's
\* insertion order, the order of first appearance; exc is set when the loop
\* body raised on some post, and the posts before it are those collected.
CollectStats(ps) ==
    LET raising == {i \in 1..Len(ps) : PostCollectRaises(ps[i])}
        stop == IF raising = {} THEN Len(ps) + 1
                ELSE CHOOSE i \in raising : \A j \in raising : i <= j
        seen == [i \in 1..(stop - 1) |-> i]
        authors == [i \in 1..(stop - 1) |-> AccountKey(ps[i])]
        first == FirstOccurrences(authors)
        accounts == [k \in 1..Len(first) |-> first[k][2]]
        Of(a) == SelectSeq(seen, LAMBDA i : authors[i] = a)
        Rated(a) == SelectSeq(Of(a),
                        LAMBDA i : ps[i].engagement = "dict" /\ ps[i].retweets > 0)
    IN  [accounts |-> accounts,
         stats |-> [a \in SeqRange(accounts) |->
                      [post_count |-> Len(Of(a)),
                       post_times |->
                          Len(SelectSeq(Of(a), LAMBDA i : ps[i].has_created_at)),
                       engagement_ratios |->
                          [k \in 1..Len(Rated(a)) |->
                              Rat(ps[Rated(a)[k]].likes, ps[Rated(a)[k]].retweets)]]],
         exc |-> raising # {}]

\* SuspicionScore counting only the low engagement ratios as unusual.
SuspicionScoreLowRatioOnly(stats) ==
    LET s1 == IF stats.post_count > 10 THEN Rat(3, 10) ELSE RInt(0)
        s2 == IF stats.engagement_ratios # <<>>
              THEN LET avg_ratio == Mean(stats.engagement_ratios) IN
                   IF RLt(avg_ratio, Rat(1, 10))
                   THEN Rat(4, 10) ELSE RInt(0)
              ELSE RInt(0)
        s3 == IF stats.post_times > 5 THEN Rat(2, 10) ELSE RInt(0)
    IN  RAdd(RAdd(s1, s2), s3)

\* The suspicion score of one account (lines 346-361).
SuspicionScore(stats) ==
    LET s1 == IF stats.post_count > 10 THEN Rat(3, 10) ELSE RInt(0)
        s2 == IF stats.engagement_ratios # <<>>
              THEN LET avg_ratio == Mean(stats.engagement_ratios) IN
                   IF RLt(avg_ratio, Rat(1, 10)) \/ RLt(RInt(10), avg_ratio)
                   THEN Rat(4, 10) ELSE RInt(0)
              ELSE RInt(0)
        s3 == IF stats.post_times > 5 THEN Rat(2, 10) ELSE RInt(0)
    IN  RAdd(RAdd(s1, s2), s3)

\* SuspiciousAccounts with the test suspicion_score >= 0.5.
SuspiciousAccountsInclusive(accounts, stats) ==
    LET flagged == SelectSeq(accounts,
                       LAMBDA account :
                           RLe(Rat(5, 10), SuspicionScore(stats[account])))
    IN  [k \in 1..Len(flagged) |->
            [account |-> flagged[k],
             suspicion_score |-> SuspicionScore(stats[flagged[k]]),
             post_count |-> stats[flagged[k]].post_count]]

\* for account, stats in account_stats.items(): ... (lines 345-370)
SuspiciousAccounts(accounts, stats) ==
    LET flagged == SelectSeq(accounts,
                       LAMBDA account :
                           RLt(Rat(5, 10), SuspicionScore(stats[account])))
    IN  [k \in 1..Len(flagged) |->
            [account |-> flagged[k],
             suspicion_score |-> SuspicionScore(stats[flagged[k]]),
             post_count |-> stats[flagged[k]].post_count]]

\* {post.get("content", "")[:50] for post in posts}; raises on content None.
ContentRaises(ps) == \E i \in 1..Len(ps) : ps[i].content[1] = "none"
UniqueContent(ps) ==
    {IF ps[i].content[1] = "absent" THEN <<>> ELSE Prefix(ps[i].content[2], 50) :
        i \in 1..Len(ps)}

BotKeysFull == {"bot_probability", "coordinated_campaign", "suspicious_accounts",
                "total_accounts_analyzed", "coordinated_indicators", "analysis"}
BotKeysShort == {"bot_probability", "coordinated_campaign", "suspicious_accounts",
                 "analysis"}

\* The early return for no posts and the except branch (lines 307-312, 404-409).
BotDefault(analysis) ==
    [keys |-> BotKeysShort, bot_probability |-> RInt(0),
     coordinated_campaign |-> FALSE, suspicious_accounts |-> <<>>,
     total_accounts_analyzed |-> 0, coordinated_indicators |-> 0,
     analysis |-> analysis]

\* BotAnalysis with the list cut to 10 before anything is computed from it.
BotAnalysisCappedFirst(ps, collected) ==
    LET suspicious_accounts ==
            Prefix(SuspiciousAccounts(collected.accounts, collected.stats), 10)
        coordinated_campaign == Len(suspicious_accounts) > 5
        unique_content == UniqueContent(ps)
        similar == 10 * Cardinality(unique_content) < 7 * Len(ps)
        coordinated_indicators ==
            (IF coordinated_campaign THEN 1 ELSE 0) + (IF similar THEN 1 ELSE 0)
        n_accounts == Len(collected.accounts)
        base == RMin(RInt(1),
                     Rat(Len(suspicious_accounts),
                         IF n_accounts > 1 THEN n_accounts ELSE 1))
        bot_probability ==
            IF coordinated_indicators > 0
            THEN RMin(RInt(1),
                      RAdd(base, RMul(Rat(3, 10), RInt(coordinated_indicators))))
            ELSE base
    IN  [keys |-> BotKeysFull,
         bot_probability |-> Round3(bot_probability),
         coordinated_campaign |-> coordinated_campaign,
         suspicious_accounts |-> suspicious_accounts,
         total_accounts_analyzed |-> n_accounts,
         coordinated_indicators |-> coordinated_indicators,
         analysis |-> "analyzed"]

\* BotAnalysis adding 0.3 once, however many indicators there are.
BotAnalysisSingleBoost(ps, collected) ==
    LET suspicious_accounts == SuspiciousAccounts(collected.accounts, collected.stats)
        coordinated_campaign == Len(suspicious_accounts) > 5
        unique_content == UniqueContent(ps)
        similar == 10 * Cardinality(unique_content) < 7 * Len(ps)
        coordinated_indicators ==
            (IF coordinated_campaign THEN 1 ELSE 0) + (IF similar THEN 1 ELSE 0)
        n_accounts == Len(collected.accounts)
        base == RMin(RInt(1),
                     Rat(Len(suspicious_accounts),
                         IF n_accounts > 1 THEN n_accounts ELSE 1))
        bot_probability ==
            IF coordinated_indicators > 0
            THEN RMin(RInt(1), RAdd(base, Rat(3, 10)))
            ELSE base
    IN  [keys |-> BotKeysFull,
         bot_probability |-> Round3(bot_probability),
         coordinated_campaign |-> coordinated_campaign,
         suspicious_accounts |-> Prefix(suspicious_accounts, 10),
         total_accounts_analyzed |-> n_accounts,
         coordinated_indicators |-> coordinated_indicators,
         analysis |-> "analyzed"]

BotAnalysis(ps, collected) ==
    LET suspicious_accounts == SuspiciousAccounts(collected.accounts, collected.stats)
        coordinated_campaign == Len(suspicious_accounts) > 5
        unique_content == UniqueContent(ps)
        similar == 10 * Cardinality(unique_content) < 7 * Len(ps)
        coordinated_indicators ==
            (IF coordinated_campaign THEN 1 ELSE 0) + (IF similar THEN 1 ELSE 0)
        n_accounts == Len(collected.accounts)
        base == RMin(RInt(1),
                     Rat(Len(suspicious_accounts),
                         IF n_accounts > 1 THEN n_accounts ELSE 1))
        bot_probability ==
            IF coordinated_indicators > 0
            THEN RMin(RInt(1),
                      RAdd(base, RMul(Rat(3, 10), RInt(coordinated_indicators))))
            ELSE base
    IN  [keys |-> BotKeysFull,
         bot_probability |-> Round3(bot_probability),
         coordinated_campaign |-> coordinated_campaign,
         suspicious_accounts |-> Prefix(suspicious_accounts, 10),
         total_accounts_analyzed |-> n_accounts,
         coordinated_indicators |-> coordinated_indicators,
         analysis |-> "analyzed"]

detect_bots_result(ps) ==
    IF ps = <<>> THEN BotDefault("no posts")
    ELSE LET collected == CollectStats(ps)
         IN  IF collected.exc \/ ContentRaises(ps)
             THEN BotDefault("error")
             ELSE BotAnalysis(ps, collected)

\* The inputs of detect_bots: a run of copies of one post followed by a
\* short tail of arbitrary posts.
MaxBotTail == 2
BotRepeats == {0, 6, 11}

\* A str of n characters whose i-th character is c.
Text(n, i, c) == [j \in 1..n |-> IF j = i THEN c ELSE "x"]

BotPost(author, likes, retweets, content) ==
    [isNone |-> FALSE, author |-> author, has_created_at |-> TRUE,
     engagement |-> "dict", likes |-> likes, retweets |-> retweets,
     content |-> content]

NonePost ==
    [isNone |-> TRUE, author |-> "<absent>", has_created_at |-> FALSE,
     engagement |-> "absent", likes |-> 0, retweets |-> 0,
     content |-> <<"absent", <<>>>>]

\* {"invalid": "data"}: a dict with none of the keys detect_bots reads.
KeylessPost == [NonePost EXCEPT !.isNone = FALSE]

BotPostKinds ==
    {BotPost("a1", 5, 5, <<"str", Text(52, 1, "a")>>),
     BotPost("a2", 5, 5, <<"str", Text(52, 51, "b")>>),
     BotPost("a3", 50, 1, <<"str", Text(52, 51, "c")>>),
     BotPost("<None>", 1, 20, <<"str", Text(10, 1, "d")>>),
     BotPost("<None>", 5, 5, <<"none", <<>>>>),
     [BotPost("a2", 0, 0, <<"str", Text(10, 2, "e")>>) EXCEPT !.engagement = "none"],
     KeylessPost,
     NonePost}

RECURSIVE Tails(_)
Tails(n) ==
    IF n = 0 THEN {<<>>}
    ELSE Tails(n - 1) \cup
         {Append(s, k) : s \in {x \in Tails(n - 1) : Len(x) = n - 1},
                         k \in BotPostKinds}

Repeat(x, n) == [i \in 1..n |-> x]

BotBatches ==
    {Repeat(k, n) \o tail : k \in BotPostKinds, n \in BotRepeats,
                            tail \in Tails(MaxBotTail)}

\* A crowd: nbots accounts posting k times each in turn, then norganic
\* accounts posting once each with likes equal to retweets.
\*   cmode  "unique": every post has a text of its own; "same": one text;
\*          "dup90": nine posts out of ten carry the one text
\*   stamps "all" / "none": every / no post has created_at;
\*          "odd": the posts of the odd-numbered accounts have it
Digits(j) ==
    <<ToString(j \div 100), ToString((j \div 10) % 10), ToString(j % 10)>>

CrowdContent(cmode, j) ==
    IF cmode = "same" \/ (cmode = "dup90" /\ j % 10 # 0)
    THEN <<"str", <<"s">>>>
    ELSE <<"str", Digits(j)>>

CrowdPost(author, a, j, likes, retweets, cmode, stamps) ==
    [isNone |-> FALSE, author |-> author,
     has_created_at |-> stamps = "all" \/ (stamps = "odd" /\ a % 2 = 1),
     engagement |-> "dict", likes |-> likes, retweets |-> retweets,
     content |-> CrowdContent(cmode, j)]

Crowd(nbots, k, likes, retweets, cmode, stamps, norganic) ==
    [j \in 1..(nbots * k) |->
        CrowdPost("b" \o ToString(((j - 1) % nbots) + 1), ((j - 1) % nbots) + 1,
                  j, likes, retweets, cmode, stamps)]
    \o [i \in 1..norganic |->
        CrowdPost("o" \o ToString(i), i, nbots * k + i, 3, 3, "unique", stamps)]

CrowdShapes == {<<1, 1>>, <<10, 1>>, <<15, 1>>, <<20, 1>>,
                <<1, 11>>, <<1, 25>>, <<12, 11>>, <<20, 11>>}
CrowdEngagements == {<<1, 1000>>, <<0, 100>>, <<5, 1>>, <<50, 1>>, <<3, 3>>}

CrowdBatches ==
    {Crowd(sh[1], sh[2], e[1], e[2], cm, st, no) :
        sh \in CrowdShapes, e \in CrowdEngagements,
        cm \in {"unique", "same", "dup90"}, st \in {"all", "none", "odd"},
        no \in {0, 12}}

AllBotBatches == BotBatches \cup CrowdBatches

BotIdle ==
    /\ bposts = <<>>
    /\ bpc = "off"
    /\ bresult = BotDefault("none")

InitBots ==
    /\ unit = "bots"
    /\ bposts \in AllBotBatches
    /\ bpc = "idle"
    /\ bresult = BotDefault("none")

\* await trust_scorer.detect_bots(posts)
detect_bots ==
    /\ unit = "bots"
    /\ bpc = "idle"
    /\ bresult' = detect_bots_result(bposts)
    /\ bpc' = "done"
    /\ UNCHANGED <<unit, bposts, trustVars, trendVars, corrVars, scoreVars, groupVars,
                   ingestVars>>

\* The caller takes the result and analyses the batch again.
DetectAgain ==
    /\ unit = "bots"
    /\ bpc = "done"
    /\ bresult' = BotDefault("none")
    /\ bpc' = "idle"
    /\ UNCHANGED <<unit, bposts, trustVars, trendVars, corrVars, scoreVars, groupVars,
                   ingestVars>>

NextBots == detect_bots \/ DetectAgain

----------------------------------------------------------------------------
(* TrendDetector (trend_detector.py).                                      *)
(* A post is a dict with                                                   *)
(*   posted_at  <<"dt", t>> a datetime, <<"str", t>> its ISO string,       *)
(*              <<"bad", 0>> a string fromisoformat rejects,               *)
(*              <<"none", 0>> None                                         *)
(*   content    its text: equal texts are equal strings, and two different *)
(*              texts of the model share no term                           *)
(*   platform, keywords, hashtags, author_username ("" for none), mentions *)
(* Lists of posts inside the detector hold references: they are modelled   *)
(* as sequences of indices into the batch.                                 *)

min_mentions == 10
velocity_threshold == 5
TrendFloor == 20
TrendCap == 50

\* A trend candidate: `fields` are the keys the dict has.
Trend(type, term, fields, mention_count, velocity, acceleration, nplatforms, cv2, members) ==
    [type |-> type, term |-> term, fields |-> fields,
     mention_count |-> mention_count, velocity |-> velocity,
     acceleration |-> acceleration, nplatforms |-> nplatforms,
     cv2 |-> cv2, members |-> members, window |-> 0, spike_ratio |-> RInt(0),
     score |-> RInt(0)]

RECURSIVE SortedSeqOf(_)
SortedSeqOf(S) ==
    IF S = {} THEN <<>>
    ELSE LET m == CHOOSE x \in S : \A y \in S : x <= y
         IN  <<m>> \o SortedSeqOf(S \ {m})

RECURSIVE Flatten(_)
Flatten(ss) == IF ss = <<>> THEN <<>> ELSE Head(ss) \o Flatten(Tail(ss))

\* list.sort() of integers: each value, ascending, as often as it occurs.
SortAsc(s) ==
    LET values == SortedSeqOf({s[k] : k \in 1..Len(s)})
    IN  Flatten([v \in 1..Len(values) |->
                    [j \in 1..Cardinality({k \in 1..Len(s) : s[k] = values[v]})
                        |-> values[v]]])

\* isinstance(posted_at, str) -> datetime.fromisoformat(...): raises on "bad".
ParseRaises(post) == post.posted_at[1] = "bad"
NoTime(post)      == post.posted_at[1] = "none"
TimeOf(post)      == post.posted_at[2]

\* posted_at.replace(minute=(minute // window_minutes) * window_minutes, ...)
WindowStart(t, window_minutes) ==
    (t \div 60) * 60 + ((t % 60) \div window_minutes) * window_minutes

\* _group_posts_by_time has no handler of its own: a post whose posted_at
\* cannot be parsed, or is None, raises out of it.
GroupRaises(ps) == \E i \in 1..Len(ps) : ParseRaises(ps[i]) \/ NoTime(ps[i])

_group_posts_by_time(ps, window_minutes) ==
    LET keys == {WindowStart(TimeOf(ps[i]), window_minutes) : i \in 1..Len(ps)}
    IN  [w \in keys |->
            SelectSeq([i \in 1..Len(ps) |-> i],
                      LAMBDA i : WindowStart(TimeOf(ps[i]), window_minutes) = w)]

\* The terms of one field of the batch in order of first appearance (the
\* insertion order of keyword_timeline), and the timestamps of one term.
RECURSIVE TermsFrom(_, _, _, _)
TermsFrom(ps, field, i, terms) ==
    IF i > Len(ps) THEN terms
    ELSE LET first == FirstOccurrences(ps[i][field])
             fresh == SelectSeq([k \in 1..Len(first) |-> first[k][2]],
                                LAMBDA x : x \notin SeqRange(terms))
         IN  TermsFrom(ps, field, i + 1, terms \o fresh)

TermsOf(ps, field) == TermsFrom(ps, field, 1, <<>>)

Timeline(ps, field, term) ==
    Flatten([i \in 1..Len(ps) |->
        [j \in 1..Cardinality({k \in 1..Len(ps[i][field]) :
                                  ps[i][field][k] = term}) |-> i]])

\* mentions per hour over a sorted list of minutes: n / max(span_hours, 1)
SpanVelocity(ts) ==
    RDiv(RInt(Len(ts)), RMax(Rat(ts[Len(ts)] - ts[1], 60), RInt(1)))

\* _analyze_term_trend without the split into halves: acceleration 0.
_analyze_term_trend_flat(ps, term, timeline, term_type) ==
    IF \E k \in 1..Len(timeline) : NoTime(ps[timeline[k]]) THEN <<>>
    ELSE LET timestamps == SortAsc([k \in 1..Len(timeline) |-> TimeOf(ps[timeline[k]])])
         IN  <<Trend(term_type \o "_trend", term,
                     {"type", "term", "term_type", "mention_count", "velocity",
                      "acceleration", "first_seen", "last_seen", "peak_time"},
                     Len(timestamps), SpanVelocity(timestamps), RInt(0), 0,
                     RInt(0), timeline)>>

\* _analyze_term_trend: None (here <<>>) when sorting or subtracting raises,
\* which it does when a timestamp is None.
_analyze_term_trend(ps, term, timeline, term_type) ==
    IF \E k \in 1..Len(timeline) : NoTime(ps[timeline[k]]) THEN <<>>
    ELSE LET timestamps == SortAsc([k \in 1..Len(timeline) |-> TimeOf(ps[timeline[k]])])
             n == Len(timestamps)
             velocity == SpanVelocity(timestamps)
             mid_point == n \div 2
             acceleration ==
                 IF n >= 4
                 THEN RSub(SpanVelocity(SubSeq(timestamps, mid_point + 1, n)),
                           SpanVelocity(SubSeq(timestamps, 1, mid_point)))
                 ELSE RInt(0)
         IN  <<Trend(term_type \o "_trend", term,
                     {"type", "term", "term_type", "mention_count", "velocity",
                      "acceleration", "first_seen", "last_seen", "peak_time"},
                     n, velocity, acceleration, 0, RInt(0), timeline)>>

\* The two loops of _analyze_keyword_trends over one timeline dict.
RECURSIVE TermTrends(_, _, _, _)
TermTrends(ps, field, term_type, terms) ==
    IF terms = <<>> THEN <<>>
    ELSE LET timeline == Timeline(ps, field, Head(terms))
             found ==
                 IF Len(timeline) >= min_mentions
                 THEN LET trend_info == _analyze_term_trend(ps, Head(terms),
                                                            timeline, term_type)
                      IN  IF trend_info # <<>>
                             /\ RLe(RInt(velocity_threshold), trend_info[1].velocity)
                          THEN trend_info ELSE <<>>
                 ELSE <<>>
         IN  found \o TermTrends(ps, field, term_type, Tail(terms))

_analyze_keyword_trends(ps) ==
    IF \E i \in 1..Len(ps) : ParseRaises(ps[i]) THEN <<>>     \* except: return []
    ELSE TermTrends(ps, "keywords", "keyword", TermsOf(ps, "keywords"))
         \o TermTrends(ps, "hashtags", "hashtag", TermsOf(ps, "hashtags"))

\* _calculate_time_span: hours between the earliest and the latest post,
\* at least 0.1; 1.0 for fewer than two posts or when it raises.
_calculate_time_span(ps, members) ==
    IF \E k \in 1..Len(members) : ParseRaises(ps[members[k]]) \/ NoTime(ps[members[k]])
    THEN RInt(1)
    ELSE IF Len(members) < 2 THEN RInt(1)
    ELSE LET ts == SortAsc([k \in 1..Len(members) |-> TimeOf(ps[members[k]])])
         IN  RMax(Rat(ts[Len(ts)] - ts[1], 60), Rat(1, 10))

\* min()/max() over the raw posted_at values raise when these mix types.
MixedTimes(ps, members) ==
    Cardinality({ps[members[k]].posted_at[1] : k \in 1..Len(members)}) > 1
    \/ \E k \in 1..Len(members) : NoTime(ps[members[k]])

\* _analyze_cluster: <<>> when its try block raises (the cluster is dropped).
_analyze_cluster(ps, members) ==
    IF MixedTimes(ps, members) THEN <<>>
    ELSE LET platforms == {ps[members[k]].platform : k \in 1..Len(members)}
             time_span == _calculate_time_span(ps, members)
             velocity  == IF RLt(RInt(0), time_span)
                          THEN RDiv(RInt(Len(members)), RMax(time_span, RInt(1)))
                          ELSE RInt(0)
         IN  <<Trend("content_cluster", ps[members[1]].content,
                     {"type", "keywords", "hashtags", "mention_count", "velocity",
                      "platforms", "sentiment", "posts", "first_seen", "last_seen"},
                     Len(members), velocity, RInt(0), Cardinality(platforms),
                     RInt(0), members)>>

\* TfidfVectorizer(min_df=2) and DBSCAN(eps=0.3, min_samples, cosine) on
\* texts that are equal or share no term: the vocabulary is that of the
\* texts occurring at least twice (none: ValueError, no clusters); a text
\* occurring at least min_samples times is one cluster, all else is noise.
\* Labels follow the first member's position.
SameText(ps, i) == SelectSeq([j \in 1..Len(ps) |-> j],
                             LAMBDA j : ps[j].content = ps[i].content)

ClusterLabels(ps) ==
    LET min_samples == IF Len(ps) \div 20 > 3 THEN Len(ps) \div 20 ELSE 3
        vocabulary  == {i \in 1..Len(ps) : ps[i].content # ""
                                           /\ Len(SameText(ps, i)) >= 2}
    IN  IF vocabulary = {} THEN <<>>
        ELSE SelectSeq([i \in 1..Len(ps) |-> i],
                       LAMBDA i : /\ i \in vocabulary
                                  /\ SameText(ps, i)[1] = i
                                  /\ Len(SameText(ps, i)) >= min_samples)

RECURSIVE Clusters(_, _)
Clusters(ps, firsts) ==
    IF firsts = <<>> THEN <<>>
    ELSE LET cluster_posts == SameText(ps, Head(firsts))
         IN  (IF Len(cluster_posts) >= min_mentions
              THEN _analyze_cluster(ps, cluster_posts) ELSE <<>>)
             \o Clusters(ps, Tail(firsts))

_cluster_content(ps) ==
    IF Len(ps) < 3 THEN <<>> ELSE Clusters(ps, ClusterLabels(ps))

\* velocity > mean + 2 * std over the window counts, with the population
\* standard deviation: n*v - S > 2*sqrt(n*Q - S^2), S and Q the sum and the
\* sum of squares.  Where the two sides are equal as reals, the rounding of
\* np.mean and np.std decides: `tie` is that outcome.
RECURSIVE ISum(_)
ISum(s) == IF s = <<>> THEN 0 ELSE Head(s) + ISum(Tail(s))

\* velocity = mean + 2 std exactly, in exact arithmetic.
AtSpikeThreshold(velocity, velocities) ==
    LET n == Len(velocities)
        S == ISum(velocities)
        Q == ISum([k \in 1..n |-> velocities[k] * velocities[k]])
        lhs == n * velocity - S
    IN  lhs > 0 /\ lhs * lhs = 4 * (n * Q - S * S)

IsSpike(velocity, velocities, tie) ==
    LET n == Len(velocities)
        S == ISum(velocities)
        Q == ISum([k \in 1..n |-> velocities[k] * velocities[k]])
        lhs == n * velocity - S
    IN  /\ lhs > 0
        /\ \/ lhs * lhs > 4 * (n * Q - S * S)
           \/ lhs * lhs = 4 * (n * Q - S * S) /\ tie
        /\ velocity >= velocity_threshold

RECURSIVE Spikes(_, _, _, _)
Spikes(groups, windows, velocities, tie) ==
    IF windows = <<>> THEN <<>>
    ELSE LET window_posts == groups[Head(windows)]
             velocity == Len(window_posts)
         IN  (IF IsSpike(velocity, velocities, tie)
              THEN <<[Trend("velocity_spike", "",
                        {"type", "window", "velocity", "spike_ratio",
                         "mention_count", "keywords", "hashtags", "posts"},
                        Len(window_posts), RInt(velocity), RInt(0), 0, RInt(0),
                        window_posts) EXCEPT
                        !.window = Head(windows),
                        !.spike_ratio = Rat(velocity * Len(velocities),
                                            ISum(velocities))]>>
              ELSE <<>>)
             \o Spikes(groups, Tail(windows), velocities, tie)

_analyze_velocity(groups, tie) ==
    LET sorted_windows == SortedSeqOf(DOMAIN groups) IN
    IF Len(sorted_windows) < 3 THEN <<>>
    ELSE Spikes(groups, sorted_windows,
                [k \in 1..Len(sorted_windows) |-> Len(groups[sorted_windows[k]])],
                tie)

\* The author-mention graph of _analyze_network_patterns.
Nodes(ps) ==
    UNION {IF ps[i].author_username # ""
           THEN {ps[i].author_username} \cup SeqRange(ps[i].mentions)
           ELSE {} : i \in 1..Len(ps)}

Edges(ps) ==
    UNION {IF ps[i].author_username # ""
           THEN {{ps[i].author_username, m} : m \in SeqRange(ps[i].mentions)}
           ELSE {} : i \in 1..Len(ps)}

RECURSIVE Reach(_, _)
Reach(S, E) ==
    LET N == S \cup UNION {e \in E : e \cap S # {}}
    IN  IF N = S THEN S ELSE Reach(N, E)

\* networkx greedy_modularity_communities returns a partition of the nodes;
\* the model lets it be the connected components, one single community, or
\* one community per node.
CommunityChoices(ps) ==
    LET V == Nodes(ps) IN
    {{Reach({v}, Edges(ps)) : v \in V}, {V}, {{v} : v \in V}}

\* Square of the coefficient of variation of the gaps between the sorted
\* timestamps, <<"cv2", x>>; <<"zero">> where the code gives the score 0.0
\* outright (fewer than two posts or two gaps, mean gap 0, or it raises).
\* coordination_score = max(0, 1 - min(cv, 1)).
_calculate_coordination_score(ps, members) ==
    IF \E k \in 1..Len(members) : ParseRaises(ps[members[k]]) \/ NoTime(ps[members[k]])
    THEN <<"zero", RInt(0)>>
    ELSE LET ts == SortAsc([k \in 1..Len(members) |-> TimeOf(ps[members[k]])])
             m  == Len(ts) - 1
             time_diffs == [k \in 1..m |-> ts[k + 1] - ts[k]]
             S  == ISum(time_diffs)
             Q  == ISum([k \in 1..m |-> time_diffs[k] * time_diffs[k]])
         IN  IF Len(ts) < 2 \/ m <= 1 \/ S = 0 THEN <<"zero", RInt(0)>>
             ELSE <<"cv2", Rat(m * Q - S * S, S * S)>>

\* coordination_score > x/10, for a score given by its cv2.
CoordinationAbove(c, x) ==
    /\ c[1] = "cv2"
    /\ RLt(c[2], Rat((10 - x) * (10 - x), 100))

RECURSIVE NetworkTrends(_, _)
NetworkTrends(ps, comms) ==
    IF comms = <<>> THEN <<>>
    ELSE LET comm == Head(comms)
             comm_posts == SelectSeq([i \in 1..Len(ps) |-> i],
                                     LAMBDA i : ps[i].author_username \in comm)
             coordination_score == _calculate_coordination_score(ps, comm_posts)
         IN  (IF Cardinality(comm) >= 5 /\ Len(comm_posts) >= min_mentions
                 /\ CoordinationAbove(coordination_score, 7)
              THEN <<Trend("coordinated_network", "",
                        {"type", "community_id", "community_size", "post_count",
                         "coordination_score", "users", "posts"},
                        0, RInt(0), RInt(0), 0, coordination_score[2], comm_posts)>>
              ELSE <<>>)
             \o NetworkTrends(ps, Tail(comms))

RECURSIVE SetToSeq(_)
SetToSeq(S) ==
    IF S = {} THEN <<>>
    ELSE LET x == CHOOSE y \in S : TRUE IN <<x>> \o SetToSeq(S \ {x})

_analyze_network_patterns(ps, communities) ==
    IF Cardinality(Nodes(ps)) > 10
    THEN NetworkTrends(ps, SetToSeq(communities))
    ELSE <<>>

\* A score that is the number of posts behind the candidate, whatever
\* keys the candidate has.
TrendScoreByPosts(trend) ==
    RMin(RInt(Len(trend.members)), RInt(100))

\* _calculate_trend_score; trend.get(key, 0) reads 0 for a key not present.
_calculate_trend_score(trend) ==
    LET mention_count == IF "mention_count" \in trend.fields
                         THEN trend.mention_count ELSE 0
        velocity == IF "velocity" \in trend.fields THEN trend.velocity ELSE RInt(0)
        acceleration == IF "acceleration" \in trend.fields
                        THEN trend.acceleration ELSE RInt(0)
        platform_diversity == IF "platforms" \in trend.fields
                              THEN trend.nplatforms ELSE 0
        s1 == RMul(RMin(Rat(mention_count, 100), RInt(1)), RInt(30))
        s2 == RAdd(s1, RMul(RMin(RDiv(velocity, RInt(50)), RInt(1)), RInt(25)))
        s3 == IF RLt(RInt(0), acceleration)
              THEN RAdd(s2, RMul(RMin(RDiv(acceleration, RInt(20)), RInt(1)), RInt(20)))
              ELSE s2
        s4 == RAdd(s3, RMul(RMin(Rat(platform_diversity, 4), RInt(1)), RInt(15)))
        s5 == IF "coordination_score" \in trend.fields
                 /\ RLt(trend.cv2, Rat(4, 100))
              THEN RMul(s4, Rat(1, 2)) ELSE s4
        s6 == IF trend.type = "content_cluster" THEN RAdd(s5, RInt(10))
              ELSE IF trend.type = "velocity_spike" THEN RAdd(s5, RInt(15))
              ELSE s5
    IN  RMin(s6, RInt(100))

\* _combine_trend_signals that gives up when one detector returned nothing.
CombineAllOrNothing(clusters, keywords, velocities, networks) ==
    IF <<>> \in {clusters, keywords, velocities, networks} THEN <<>>
    ELSE LET all_trends == clusters \o keywords \o velocities \o networks
         IN  [k \in 1..Len(all_trends) |->
                 [all_trends[k] EXCEPT
                     !.score = _calculate_trend_score(all_trends[k]),
                     !.fields = @ \cup {"score"}]]

\* _combine_trend_signals: concatenate, then score each.
_combine_trend_signals(clusters, keywords, velocities, networks) ==
    LET all_trends == clusters \o keywords \o velocities \o networks
    IN  [k \in 1..Len(all_trends) |->
            [all_trends[k] EXCEPT
                !.score = _calculate_trend_score(all_trends[k]),
                !.fields = @ \cup {"score"}]]

\* filtered_trends.sort(key=score, reverse=True) is stable: equal scores
\* keep their order.
RECURSIVE InsertByScore(_, _)
InsertByScore(s, x) ==
    IF s = <<>> THEN <<x>>
    ELSE IF RLt(Head(s).score, x.score) THEN <<x>> \o s
    ELSE <<Head(s)>> \o InsertByScore(Tail(s), x)

RECURSIVE SortByScore(_)
SortByScore(s) ==
    IF s = <<>> THEN <<>>
    ELSE InsertByScore(SortByScore(SubSeq(s, 1, Len(s) - 1)), s[Len(s)])

\* _filter_and_rank_trends keeping the score filter only.
FilterWithoutRanking(trends) ==
    SelectSeq(trends, LAMBDA tr : RLe(RInt(TrendFloor), tr.score))

_filter_and_rank_trends(trends) ==
    LET filtered_trends ==
            SelectSeq(trends, LAMBDA tr : RLe(RInt(TrendFloor), tr.score))
    IN  Prefix(SortByScore(filtered_trends), TrendCap)

\* The inputs of detect_trends.  A batch is laid out by a profile, the
\* number of posts in each successive hour; the posts of an hour are one
\* minute apart.  All posts of a batch carry the same keywords and hashtags.
MaxTags == 51
Platforms == <<"twitter", "reddit", "tiktok", "youtube", "instagram">>
Profiles == {<<>>, <<5>>, <<9>>, <<10>>, <<25>>, <<30, 12>>, <<3, 3, 4>>,
             <<5, 1, 1, 1, 1>>, <<10, 2, 2, 2, 2>>, <<5, 1, 1, 1, 1, 1>>,
             <<7, 1, 1, 1, 1, 1>>, <<40, 1, 1, 1, 1, 1>>}
TagModes == {<<>>, <<"h1">>, <<"h1", "h1", "h1">>, <<"h1", "h2">>}
KeywordModes == {<<>>, <<"k1">>}
ContentModes == {"same", "unique", "split"}
AuthorModes == {"solo", "ring"}
PlatformModes == {1, 5}

NTags(n) == [i \in 1..n |-> "h" \o ToString(i)]

TrendPost(w, j, kws, tags, cmode, amode, pmode) ==
    [posted_at |-> <<"dt", 60 * w + ((j - 1) % 60)>>,
     content |-> IF cmode = "same" THEN "t1"
                 ELSE IF cmode = "split"
                      THEN (IF j % 2 = 0 THEN "t1" ELSE "t2")
                      ELSE "u" \o ToString(w) \o "." \o ToString(j),
     platform |-> Platforms[((j - 1) % pmode) + 1],
     keywords |-> kws,
     hashtags |-> tags,
     author_username |-> IF amode = "solo" THEN "u0"
                         ELSE "u" \o ToString(((j - 1) % 12) + 1),
     mentions |-> IF amode = "solo" THEN <<>>
                  ELSE <<"u" \o ToString((j % 12) + 1)>>]

Batch(profile, kws, tags, cmode, amode, pmode) ==
    Flatten([w \in 1..Len(profile) |->
                [j \in 1..profile[w] |->
                    TrendPost(w, j, kws, tags, cmode, amode, pmode)]])

PlainBatches ==
    {Batch(pr, kw, tg, cm, am, pm) :
        pr \in Profiles, kw \in KeywordModes, tg \in TagModes,
        cm \in ContentModes, am \in AuthorModes, pm \in PlatformModes}

\* Many hashtags at once, more candidates than the ranking keeps; the
\* first of them possibly repeated in each post.
TagHeavyBatches ==
    {Batch(pr, <<"k1">>, NTags(MaxTags) \o again, cm, "solo", 1) :
        pr \in {<<9>>, <<25>>}, cm \in {"same", "unique"},
        again \in {<<>>, <<"h1", "h1">>}}

\* ISO strings instead of datetimes in every post, and one post of the
\* batch whose posted_at is None or unparsable.
WithStrings(batch) ==
    [i \in 1..Len(batch) |-> [batch[i] EXCEPT !.posted_at[1] = "str"]]
Spoil(batch, i, tag) ==
    [batch EXCEPT ![i] = [@ EXCEPT !.posted_at = <<tag, 0>>]]

SeedBatches ==
    {Batch(pr, <<"k1">>, tg, "same", "solo", 5) :
        pr \in {<<9>>, <<10>>, <<25>>, <<26>>, <<7, 1, 1, 1, 1, 1>>},
        tg \in {<<"h1">>, <<"h1", "h1", "h1">>}}

SpoiltBatches ==
    {Spoil(b, i, tag) : b \in SeedBatches, i \in {1, 9}, tag \in {"none", "bad"}}

\* Every post of an hour published at the same instant, by a ring of
\* accounts that mention each other.
Simultaneous(batch) ==
    [i \in 1..Len(batch) |->
        [batch[i] EXCEPT !.posted_at[2] = 60 * (@ \div 60)]]

BurstBatches ==
    {Simultaneous(Batch(pr, <<"k1">>, <<"h1">>, cm, "ring", 1)) :
        pr \in {<<10>>, <<25>>}, cm \in {"same", "unique"}}

\* Four quiet hours and one busy hour, and no terms.
SpikeBatches ==
    {Batch(pr, <<>>, <<>>, cm, "solo", pm) :
        pr \in {<<25, 4, 4, 4, 4>>, <<4, 4, 4, 4, 25>>, <<1, 1, 12, 1>>},
        cm \in {"unique", "same"}, pm \in PlatformModes}

TrendBatches ==
    PlainBatches \cup TagHeavyBatches \cup SpoiltBatches
    \cup {WithStrings(b) : b \in SeedBatches} \cup BurstBatches
    \cup SpikeBatches

\* The size guard with the threshold 5.
TooFewPostsBelowFive(ps) == Len(ps) < 5

\* if len(posts) < self.min_mentions: return []
TooFewPosts(ps) == Len(ps) < min_mentions

\* The parsing loops with an assignment into the post: every ISO string
\* replaced by the datetime it stands for.
ParsedInPlace(ps) ==
    [i \in 1..Len(ps) |->
        IF ps[i].posted_at[1] = "str"
        THEN [ps[i] EXCEPT !.posted_at[1] = "dt"] ELSE ps[i]]

\* The batch as the parsing loops leave it (lines 84-87, 235-237): the
\* parsed datetime is bound to the local posted_at, no post is assigned to.
PostsAfterParsing(ps) == [i \in 1..Len(ps) |-> ps[i]]

\* The two things a run of detect_trends takes from its libraries, each a
\* function of the batch: whether numpy's rounding puts a velocity that
\* equals mean + 2 std exactly above the threshold, which only matters
\* when some window is at it; and the partition networkx returns, which is
\* only asked for when the graph has more than 10 nodes.
\* Window counts with a count equal to mean + 2 std, and what the double
\* arithmetic of np.mean and np.std (mean = sum/n, std = sqrt(sum((x -
\* mean)^2)/n)) makes of mean + 2 * std: for 25, 4, 4, 4, 4 it is
\* 8.2 + 2 * 8.399999999999999 = 24.999999999999996, below the count; for
\* 5, 1, 1, 1, 1 it is 1.8 + 2 * 1.6000000000000003 = 5.000000000000001.
RoundsBelow == {<<25, 4, 4, 4, 4>>, <<4, 4, 4, 4, 25>>}
RoundsAbove == {<<5, 1, 1, 1, 1>>, <<10, 2, 2, 2, 2>>}

TieChoices(ps) ==
    IF TooFewPosts(ps) \/ GroupRaises(ps) THEN {FALSE}
    ELSE LET groups == _group_posts_by_time(ps, 60)
             windows == SortedSeqOf(DOMAIN groups)
             velocities == [k \in 1..Len(windows) |-> Len(groups[windows[k]])]
         IN  IF /\ Len(windows) >= 3
                /\ \E k \in 1..Len(windows) :
                       /\ velocities[k] >= velocity_threshold
                       /\ AtSpikeThreshold(velocities[k], velocities)
             THEN (IF velocities \in RoundsBelow THEN {TRUE}
                   ELSE IF velocities \in RoundsAbove THEN {FALSE}
                   ELSE BOOLEAN)
             ELSE {FALSE}

PartitionChoices(ps) ==
    IF TooFewPosts(ps) \/ GroupRaises(ps) \/ Cardinality(Nodes(ps)) <= 10
    THEN {{}}
    ELSE CommunityChoices(ps)

NoTrends == [status |-> "none", trends |-> <<>>, caught |-> FALSE]

TrendLocalsClear ==
    /\ temporal_groups = <<>>
    /\ content_clusters = <<>>
    /\ keyword_trends = <<>>
    /\ velocity_trends = <<>>
    /\ network_trends = <<>>
    /\ detected_trends = <<>>

\* __init__, lines 28-30
Thresholds ==
    [min_mentions |-> min_mentions, velocity_threshold |-> velocity_threshold,
     similarity_threshold |-> Rat(7, 10)]

TrendIdle ==
    /\ config = Thresholds
    /\ posts = <<>>
    /\ rounding = FALSE
    /\ partition = {}
    /\ dpc = "off"
    /\ TrendLocalsClear
    /\ dresult = NoTrends
    /\ dprev = NoTrends

InitTrends ==
    /\ unit = "trends"
    /\ config = Thresholds
    /\ posts \in TrendBatches
    /\ rounding \in TieChoices(posts)
    /\ partition \in PartitionChoices(posts)
    /\ dpc = "start"
    /\ TrendLocalsClear
    /\ dresult = NoTrends
    /\ dprev = NoTrends

\* detect_trends, lines 43-49: the size guard and the temporal grouping.
\* An exception of the grouping lands in detect_trends' except: return [].
GroupPosts ==
    /\ unit = "trends"
    /\ dpc = "start"
    /\ IF TooFewPosts(posts)
       THEN /\ dresult' = [status |-> "returned", trends |-> <<>>, caught |-> FALSE]
            /\ dpc' = "done"
            /\ UNCHANGED temporal_groups
       ELSE IF GroupRaises(posts)
       THEN /\ dresult' = [status |-> "returned", trends |-> <<>>, caught |-> TRUE]
            /\ dpc' = "done"
            /\ UNCHANGED temporal_groups
       ELSE /\ temporal_groups' = _group_posts_by_time(posts, 60)
            /\ dpc' = "cluster"
            /\ UNCHANGED dresult
    /\ posts' = IF TooFewPosts(posts) THEN posts ELSE PostsAfterParsing(posts)
    /\ UNCHANGED <<unit, config, rounding, partition, dprev,
                   content_clusters, keyword_trends, velocity_trends,
                   network_trends, detected_trends, trustVars, botVars, corrVars, scoreVars, groupVars,
                   ingestVars>>

\* line 52
ClusterContent ==
    /\ unit = "trends"
    /\ dpc = "cluster"
    /\ content_clusters' = _cluster_content(posts)
    /\ dpc' = "keywords"
    /\ UNCHANGED <<unit, config, posts, rounding, partition, dprev,
                   temporal_groups, keyword_trends, velocity_trends,
                   network_trends, detected_trends, dresult, trustVars, botVars, corrVars, scoreVars, groupVars,
                   ingestVars>>

\* line 55
KeywordTrends ==
    /\ unit = "trends"
    /\ dpc = "keywords"
    /\ keyword_trends' = _analyze_keyword_trends(posts)
    /\ dpc' = "velocity"
    /\ posts' = PostsAfterParsing(posts)
    /\ UNCHANGED <<unit, config, rounding, partition, dprev,
                   temporal_groups, content_clusters, velocity_trends,
                   network_trends, detected_trends, dresult, trustVars, botVars, corrVars, scoreVars, groupVars,
                   ingestVars>>

\* line 58
VelocityAnalysis ==
    /\ unit = "trends"
    /\ dpc = "velocity"
    /\ velocity_trends' = _analyze_velocity(temporal_groups, rounding)
    /\ dpc' = "network"
    /\ UNCHANGED <<unit, config, posts, rounding, partition, dprev,
                   temporal_groups, content_clusters, keyword_trends,
                   network_trends, detected_trends, dresult, trustVars, botVars, corrVars, scoreVars, groupVars,
                   ingestVars>>

\* line 61
NetworkAnalysis ==
    /\ unit = "trends"
    /\ dpc = "network"
    /\ network_trends' = _analyze_network_patterns(posts, partition)
    /\ dpc' = "combine"
    /\ UNCHANGED <<unit, config, posts, rounding, partition, dprev,
                   temporal_groups, content_clusters, keyword_trends,
                   velocity_trends, detected_trends, dresult, trustVars, botVars, corrVars, scoreVars, groupVars,
                   ingestVars>>

\* lines 64-66
CombineSignals ==
    /\ unit = "trends"
    /\ dpc = "combine"
    /\ detected_trends' = _combine_trend_signals(content_clusters, keyword_trends,
                                                 velocity_trends, network_trends)
    /\ dpc' = "rank"
    /\ UNCHANGED <<unit, config, posts, rounding, partition, dprev,
                   temporal_groups, content_clusters, keyword_trends,
                   velocity_trends, network_trends, dresult, trustVars, botVars, corrVars, scoreVars, groupVars,
                   ingestVars>>

\* lines 69-72
FilterAndRank ==
    /\ unit = "trends"
    /\ dpc = "rank"
    /\ dresult' = [status |-> "returned",
                   trends |-> _filter_and_rank_trends(detected_trends),
                   caught |-> FALSE]
    /\ dpc' = "done"
    /\ UNCHANGED <<unit, config, posts, rounding, partition, dprev,
                   temporal_groups, content_clusters, keyword_trends,
                   velocity_trends, network_trends, detected_trends,
                   trustVars, botVars, corrVars, scoreVars, groupVars,
                   ingestVars>>

\* The caller takes the trends and calls again with the batch.
TrendsAgain ==
    /\ unit = "trends"
    /\ dpc = "done"
    /\ dpc' = "start"
    /\ temporal_groups' = <<>>
    /\ content_clusters' = <<>>
    /\ keyword_trends' = <<>>
    /\ velocity_trends' = <<>>
    /\ network_trends' = <<>>
    /\ detected_trends' = <<>>
    /\ dprev' = dresult
    /\ dresult' = NoTrends
    /\ UNCHANGED <<unit, config, posts, rounding, partition, trustVars, botVars, corrVars, scoreVars, groupVars,
                   ingestVars>>

NextTrends ==
    \/ GroupPosts
    \/ ClusterContent
    \/ KeywordTrends
    \/ VelocityAnalysis
    \/ NetworkAnalysis
    \/ CombineSignals
    \/ FilterAndRank
    \/ TrendsAgain

----------------------------------------------------------------------------
(* TrustScorer.update_with_correlation (trust_scorer.py 411-449).          *)

\* An argument is None or a dict; of a dict only the one key the method
\* reads matters, `value` being what is stored under it (Missing: no such
\* key).
NoDict == [isdict |-> FALSE, value |-> Missing]
Dict(v) == [isdict |-> TRUE, value |-> v]

\* d.get(key, default): AttributeError on None.
DictGet(d, default) ==
    IF ~d.isdict THEN Exc
    ELSE IF d.value = Missing THEN default
    ELSE d.value

\* The if/elif chain over correlation_score; comparing None or a str with
\* a float raises TypeError.
Adjustment(correlation_score) ==
    IF ~IsVal(correlation_score) THEN Exc
    ELSE IF RLt(Rat(7, 10), Num(correlation_score)) THEN Val(Rat(2, 10))
    ELSE IF RLt(Rat(5, 10), Num(correlation_score)) THEN Val(Rat(1, 10))
    ELSE IF RLt(Rat(3, 10), Num(correlation_score)) THEN Val(Rat(5, 100))
    ELSE Val(Rat(-1, 10))

\* The try block: Exc where a statement of it raises.
UpdatedScore(art, corr) ==
    LET current_score == DictGet(art, Val(Rat(1, 2)))
        correlation_score == DictGet(corr, Val(RInt(0)))
        adjustment == IF current_score = Exc \/ correlation_score = Exc THEN Exc
                      ELSE Adjustment(correlation_score)
    IN  IF adjustment = Exc THEN Exc
        ELSE IF ~IsVal(current_score) THEN Exc    \* TypeError: None + float
        ELSE Val(RMax(RInt(0),
                      RMin(RInt(1), RAdd(Num(current_score), Num(adjustment)))))

\* The except branch answers article.get("trust_score", 0.5), which raises
\* again, out of the method, when article is None.
update_with_correlation_result(art, corr) ==
    LET updated_score == UpdatedScore(art, corr)
        fallback == DictGet(art, Val(Rat(1, 2)))
    IN  IF updated_score # Exc
        THEN [status |-> "returned", value |-> updated_score, caught |-> FALSE]
        ELSE IF fallback = Exc
        THEN [status |-> "raised", value |-> None, caught |-> TRUE]
        ELSE [status |-> "returned", value |-> fallback, caught |-> TRUE]

\* The inputs of update_with_correlation.
TrustScores ==
    {Missing, None, NotNum} \cup
    {Val(Rat(n, 100)) : n \in {-50, 0, 5, 50, 90, 95, 100, 150}}
CorrelationScores ==
    {Missing, None, NotNum} \cup
    {Val(Rat(n, 100)) : n \in {-10, 0, 10, 20, 30, 31, 50, 60, 70, 71, 80, 100}}
Articles == {NoDict} \cup {Dict(v) : v \in TrustScores}
Correlations == {NoDict} \cup {Dict(v) : v \in CorrelationScores}

NoUpdate == [status |-> "none", value |-> None, caught |-> FALSE]

CorrIdle ==
    /\ article = NoDict
    /\ correlation = NoDict
    /\ upc = "off"
    /\ uresult = NoUpdate

InitCorr ==
    /\ unit = "correlation"
    /\ article \in Articles
    /\ correlation \in Correlations
    /\ upc = "idle"
    /\ uresult = NoUpdate

\* await trust_scorer.update_with_correlation(article, correlation)
update_with_correlation ==
    /\ unit = "correlation"
    /\ upc = "idle"
    /\ uresult' = update_with_correlation_result(article, correlation)
    /\ upc' = "done"
    /\ UNCHANGED <<unit, article, correlation, trustVars, botVars, trendVars,
                   scoreVars, groupVars,
                   ingestVars>>

\* The caller takes the score and calls again with the same arguments.
UpdateAgain ==
    /\ unit = "correlation"
    /\ upc = "done"
    /\ uresult' = NoUpdate
    /\ upc' = "idle"
    /\ UNCHANGED <<unit, article, correlation, trustVars, botVars, trendVars,
                   scoreVars, groupVars,
                   ingestVars>>

NextCorr == update_with_correlation \/ UpdateAgain

----------------------------------------------------------------------------
(* TrendDetector._calculate_trend_score called on a trend dict.            *)

\* The dicts: the keys the method reads, of any type of trend, with or
\* without a coordination_score (0.9, 0.8 or 0.5, kept as the cv2 it
\* comes from).
CandidateTypes == {"content_cluster", "velocity_spike", "keyword", "hashtag",
                   "coordinated_network"}
CandidateFields == {"type", "mention_count", "velocity", "acceleration",
                    "platforms"}
Candidates ==
    {Trend(type, "", CandidateFields \cup coord[1], mentions, RInt(velocity),
           RInt(acceleration), nplatforms, coord[2], <<>>) :
        type \in CandidateTypes,
        mentions \in {0, 10, 50, 100, 250},
        velocity \in {0, 10, 50, 80},
        acceleration \in {-5, 0, 10, 40},
        nplatforms \in {0, 1, 4, 5},
        coord \in {<<{}, RInt(0)>>,
                   <<{"coordination_score"}, Rat(1, 100)>>,
                   <<{"coordination_score"}, Rat(4, 100)>>,
                   <<{"coordination_score"}, Rat(25, 100)>>}}

NoCandidate == Trend("", "", {}, 0, RInt(0), RInt(0), 0, RInt(0), <<>>)

ScoreIdle ==
    /\ candidate = NoCandidate
    /\ cpc = "off"
    /\ cscore = RInt(0)

InitScore ==
    /\ unit = "score"
    /\ candidate \in Candidates
    /\ cpc = "idle"
    /\ cscore = RInt(0)

\* trend["score"] = self._calculate_trend_score(trend)
calculate_trend_score ==
    /\ unit = "score"
    /\ cpc = "idle"
    /\ cscore' = _calculate_trend_score(candidate)
    /\ cpc' = "done"
    /\ UNCHANGED <<unit, candidate, trustVars, botVars, trendVars, corrVars,
                   groupVars,
                   ingestVars>>

ScoreAnother ==
    /\ unit = "score"
    /\ cpc = "done"
    /\ cscore' = RInt(0)
    /\ cpc' = "idle"
    /\ UNCHANGED <<unit, candidate, trustVars, botVars, trendVars, corrVars,
                   groupVars,
                   ingestVars>>

NextScore == calculate_trend_score \/ ScoreAnother

----------------------------------------------------------------------------
(* TrendDetector._group_posts_by_time called with a window of its own.     *)

WindowSizes == {1, 5, 10, 15, 20, 30, 45, 60, 90, 120}
GroupProfiles == {<<5>>, <<55>>, <<55, 20>>, <<50, 50>>, <<3, 3, 4>>, <<59, 1, 59>>}
GroupBatches ==
    LET plain == {Batch(pr, <<>>, <<>>, "unique", "solo", 1) : pr \in GroupProfiles}
    IN  plain \cup {WithStrings(b) : b \in plain} \cup {Spoil(b, 1, "bad") : b \in plain}

NoGroups == [status |-> "none", windows |-> <<>>]

GroupIdle ==
    /\ gposts = <<>>
    /\ granularity = 60
    /\ gpc = "off"
    /\ gresult = NoGroups

InitGroup ==
    /\ unit = "group"
    /\ gposts \in GroupBatches
    /\ granularity \in WindowSizes
    /\ gpc = "idle"
    /\ gresult = NoGroups

\* self._group_posts_by_time(posts, window_minutes=granularity)
group_posts_by_time ==
    /\ unit = "group"
    /\ gpc = "idle"
    /\ gresult' = IF GroupRaises(gposts) THEN [status |-> "raised", windows |-> <<>>]
                  ELSE [status |-> "returned",
                        windows |-> _group_posts_by_time(gposts, granularity)]
    /\ gpc' = "done"
    /\ UNCHANGED <<unit, gposts, granularity, trustVars, botVars, trendVars,
                   corrVars, scoreVars,
                   ingestVars>>

GroupAgain ==
    /\ unit = "group"
    /\ gpc = "done"
    /\ gresult' = NoGroups
    /\ gpc' = "idle"
    /\ UNCHANGED <<unit, gposts, granularity, trustVars, botVars, trendVars,
                   corrVars, scoreVars,
                   ingestVars>>

NextGroup == group_posts_by_time \/ GroupAgain

----------------------------------------------------------------------------
(* IngestionManager: start_collection, stop_collection and the              *)
(* _detect_trends tasks that start_collection creates.                      *)

\* detect_trends as one function of the batch and of the two choices its
\* run leaves open.
DetectTrends(ps, tie, communities) ==
    IF TooFewPosts(ps) \/ GroupRaises(ps) THEN <<>>
    ELSE _filter_and_rank_trends(
             _combine_trend_signals(
                 _cluster_content(ps),
                 _analyze_keyword_trends(ps),
                 _analyze_velocity(_group_posts_by_time(ps, 60), tie),
                 _analyze_network_patterns(ps, communities)))

MaxLoops == 2
MaxTicks == 2
Loops == 1..MaxLoops

\* What the query for the processed posts of the last two hours can give.
IngestBatches ==
    {<<>>,
     Batch(<<10>>, <<"k1">>, <<"h1">>, "same", "solo", 5),
     Batch(<<12>>, <<"k1">>, <<>>, "same", "solo", 1)}

\* _store_trend that skips a trend stored before.
StoreTrendOnce(log, trend_data) ==
    IF \E k \in 1..Len(log) : log[k] = trend_data THEN log
    ELSE Append(log, trend_data)

\* _store_trend: one more record, whatever was stored before.
_store_trend(log, trend_data) == Append(log, trend_data)

\* for trend in trends: await self._store_trend(trend)
RECURSIVE StoreAll(_, _)
StoreAll(log, trends) ==
    IF trends = <<>> THEN log
    ELSE StoreAll(_store_trend(log, Head(trends)), Tail(trends))

IngestIdle ==
    /\ running = FALSE
    /\ collection = <<>>
    /\ ipc = [l \in Loops |-> "off"]
    /\ ticks = 0
    /\ recent_posts = [l \in Loops |-> <<>>]
    /\ stored = <<>>
    /\ detections = <<>>

\* __init__: running is False and no task exists.
InitIngest ==
    /\ unit = "ingest"
    /\ running = FALSE
    /\ collection \in IngestBatches
    /\ ipc = [l \in Loops |-> "none"]
    /\ ticks = 0
    /\ recent_posts = [l \in Loops |-> <<>>]
    /\ stored = <<>>
    /\ detections = <<>>

\* start_collection: self.running = True and a new _detect_trends task,
\* whether or not the manager is running already.
start_collection(l) ==
    /\ unit = "ingest"
    /\ ipc[l] = "none"
    /\ \A k \in Loops : k < l => ipc[k] # "none"
    /\ running' = TRUE
    /\ ipc' = [ipc EXCEPT ![l] = "while"]
    /\ UNCHANGED <<unit, collection, ticks, recent_posts, stored, detections,
                   trustVars, botVars, trendVars, corrVars, scoreVars, groupVars>>

stop_collection ==
    /\ unit = "ingest"
    /\ running
    /\ running' = FALSE
    /\ UNCHANGED <<unit, collection, ipc, ticks, recent_posts, stored, detections,
                   trustVars, botVars, trendVars, corrVars, scoreVars, groupVars>>

\* while self.running: ... await asyncio.sleep(900)
LoopTest(l) ==
    /\ unit = "ingest"
    /\ ipc[l] = "while"
    /\ ipc' = [ipc EXCEPT ![l] = IF running THEN "sleep" ELSE "exit"]
    /\ UNCHANGED <<unit, running, collection, ticks, recent_posts, stored,
                   detections,
                   trustVars, botVars, trendVars, corrVars, scoreVars, groupVars>>

\* The sleep is over; the query is sent.
Wake(l) ==
    /\ unit = "ingest"
    /\ ipc[l] = "sleep"
    /\ ticks < MaxTicks
    /\ ticks' = ticks + 1
    /\ ipc' = [ipc EXCEPT ![l] = "find"]
    /\ UNCHANGED <<unit, running, collection, recent_posts, stored, detections,
                   trustVars, botVars, trendVars, corrVars, scoreVars, groupVars>>

\* recent_posts = await collection.find(...).to_list(length=None)
Find(l) ==
    /\ unit = "ingest"
    /\ ipc[l] = "find"
    /\ recent_posts' = [recent_posts EXCEPT ![l] = collection]
    /\ ipc' = [ipc EXCEPT ![l] = "detect"]
    /\ UNCHANGED <<unit, running, collection, ticks, stored, detections,
                   trustVars, botVars, trendVars, corrVars, scoreVars, groupVars>>

\* if recent_posts: detect_trends, then _store_trend for each trend.
\* Neither call suspends, so the task runs them in one piece.
DetectAndStore(l) ==
    /\ unit = "ingest"
    /\ ipc[l] = "detect"
    /\ IF recent_posts[l] # <<>>
       THEN \E tie \in TieChoices(recent_posts[l]) :
              \E communities \in PartitionChoices(recent_posts[l]) :
                LET trends == DetectTrends(recent_posts[l], tie, communities)
                IN  /\ stored' = StoreAll(stored, trends)
                    /\ detections' = Append(detections,
                                            [task |-> l, posts |-> recent_posts[l],
                                             trends |-> trends])
       ELSE UNCHANGED <<stored, detections>>
    /\ ipc' = [ipc EXCEPT ![l] = "while"]
    /\ UNCHANGED <<unit, running, collection, ticks, recent_posts,
                   trustVars, botVars, trendVars, corrVars, scoreVars, groupVars>>

\* The collection, processing and clean-up tasks change what the query
\* for the last two hours gives, while a _detect_trends task waits for it.
CollectionChanges ==
    /\ unit = "ingest"
    /\ \E l \in Loops : ipc[l] = "find"
    /\ collection' \in IngestBatches \ {collection}
    /\ UNCHANGED <<unit, running, ipc, ticks, recent_posts, stored, detections,
                   trustVars, botVars, trendVars, corrVars, scoreVars, groupVars>>

NextIngest ==
    \/ \E l \in Loops : start_collection(l)
    \/ stop_collection
    \/ \E l \in Loops : LoopTest(l)
    \/ \E l \in Loops : Wake(l)
    \/ \E l \in Loops : Find(l)
    \/ \E l \in Loops : DetectAndStore(l)
    \/ CollectionChanges

----------------------------------------------------------------------------
(* Specifications: one for each entry point, and all of them together.     *)

TrustInit ==
    InitTrust /\ BotIdle /\ TrendIdle /\ CorrIdle /\ ScoreIdle /\ GroupIdle /\ IngestIdle
BotsInit ==
    InitBots /\ TrustIdle /\ TrendIdle /\ CorrIdle /\ ScoreIdle /\ GroupIdle /\ IngestIdle
TrendsInit ==
    InitTrends /\ TrustIdle /\ BotIdle /\ CorrIdle /\ ScoreIdle /\ GroupIdle /\ IngestIdle
CorrInit ==
    InitCorr /\ TrustIdle /\ BotIdle /\ TrendIdle /\ ScoreIdle /\ GroupIdle /\ IngestIdle
ScoreInit ==
    InitScore /\ TrustIdle /\ BotIdle /\ TrendIdle /\ CorrIdle /\ GroupIdle /\ IngestIdle
GroupInit ==
    InitGroup /\ TrustIdle /\ BotIdle /\ TrendIdle /\ CorrIdle /\ ScoreIdle /\ IngestIdle
IngestInit ==
    InitIngest /\ TrustIdle /\ BotIdle /\ TrendIdle /\ CorrIdle /\ ScoreIdle /\ GroupIdle

Init ==
    \/ TrustInit \/ BotsInit \/ TrendsInit \/ CorrInit \/ ScoreInit \/ GroupInit
    \/ IngestInit

Next ==
    \/ NextTrust \/ NextBots \/ NextTrends \/ NextCorr \/ NextScore \/ NextGroup
    \/ NextIngest

Spec == Init /\ [][Next]_vars

SpecTrust  == TrustInit /\ [][NextTrust]_vars
SpecBots   == BotsInit /\ [][NextBots]_vars
SpecTrends == TrendsInit /\ [][NextTrends]_vars
SpecCorr   == CorrInit /\ [][NextCorr]_vars
SpecScore  == ScoreInit /\ [][NextScore]_vars
SpecGroup  == GroupInit /\ [][NextGroup]_vars
SpecIngest == IngestInit /\ [][NextIngest]_vars

----------------------------------------------------------------------------
(* Properties of TrustScorer.calculate_score.                              *)

Scored == tpc = "done" /\ tresult.status = "returned"

InUnit(x) == RLe(RInt(0), x) /\ RLe(x, RInt(1))

\* p is x rounded to one decimal, halves to the even tenth: 10p is an
\* integer k with |k - 10x| <= 1/2, and k is even when the distance is 1/2.
IsRoundedToTenth(p, x) ==
    LET k    == (p[1] * 10) \div p[2]
        dist == Abs(2 * k * x[2] - 20 * x[1])
    IN  /\ (p[1] * 10) % p[2] = 0
        /\ dist <= x[2]
        /\ (dist = x[2] => k % 2 = 0)

WellFormedResult(r) ==
    /\ InUnit(r.score)
    /\ IsRoundedToTenth(r.score_percentage, RMul(r.score, RInt(100)))
    /\ InUnit(r.confidence)

\* C2: every result calculate_score returns, on the normal path and from
\* its except branch alike, has 0 <= score <= 1, score_percentage equal to
\* score*100 rounded to one decimal, and 0 <= confidence <= 1.
C2_ResultRanges ==
    /\ Scored => WellFormedResult(tresult)
    /\ unit = "trust" /\ DegradedResult(story, now).status = "returned"
           => WellFormedResult(DegradedResult(story, now))

\* A returned score whose percentage needed rounding: 97/140 gives 69.3.
C2_Witness ==
    /\ Scored
    /\ tresult.score = <<97, 140>>
    /\ tresult.score_percentage = <<693, 10>>

IsDegraded(r) ==
    /\ r.status = "returned"
    /\ r.score = <<1, 2>>
    /\ r.score_percentage = <<50, 1>>
    /\ r.confidence = <<0, 1>>
    /\ \E i \in 1..Len(r.explanation) :
           r.explanation[i].text = "Error calculating trust score"

\* C3: calculate_score never raises, and whenever an exception occurs
\* anywhere during scoring it returns the degraded result score 0.5,
\* score_percentage 50.0, confidence 0.0 with the failure explanation.
C3_AnyExceptionDegrades ==
    tpc = "done" =>
        /\ tresult.status = "returned"
        /\ ExceptionOccurred(story, now) => IsDegraded(tresult)

\* The weighted mean of the non-null signals of a result, written out with
\* the weights in hundredths.
WeightPct(k) ==
    CASE k = "source_credibility"         -> 25
      [] k = "velocity_pattern"           -> 20
      [] k = "cross_platform_correlation" -> 20
      [] k = "engagement_authenticity"    -> 15
      [] k = "temporal_consistency"       -> 10
      [] k = "content_quality"            -> 10

NonNull(values) == {k \in DOMAIN values : values[k] # None}

RECURSIVE WeightedSum(_, _)
WeightedSum(values, ks) ==
    IF ks = {} THEN RInt(0)
    ELSE LET k == CHOOSE x \in ks : TRUE
         IN  RAdd(Rat(values[k][2] * WeightPct(k), values[k][3] * 100),
                  WeightedSum(values, ks \ {k}))

RECURSIVE WeightTotal(_)
WeightTotal(ks) ==
    IF ks = {} THEN 0
    ELSE LET k == CHOOSE x \in ks : TRUE
         IN  WeightPct(k) + WeightTotal(ks \ {k})

ExpectedScore(values) ==
    IF NonNull(values) = {} THEN Rat(1, 2)
    ELSE LET mean == RDiv(WeightedSum(values, NonNull(values)),
                          Rat(WeightTotal(NonNull(values)), 100))
         IN  IF RLt(mean, RInt(0)) THEN RInt(0)
             ELSE IF RLt(RInt(1), mean) THEN RInt(1)
             ELSE mean

AllNull == [k \in SignalNames |-> None]

\* C7: on the normal path score is sum(value*weight)/sum(weight) over the
\* non-null signals with weights 0.25/0.20/0.20/0.15/0.10/0.10, clamped to
\* [0,1]; it is 0.5 when no signal is non-null; confidence is the number
\* of non-null signals over 6.
C7_WeightedMean ==
    /\ Scored =>
          LET values == [k \in DOMAIN tresult.signals |-> tresult.signals[k].value]
          IN  /\ DOMAIN tresult.signals = SignalNames
              /\ values = ComputeSignals(story, now)
              /\ \A k \in SignalNames :
                     tresult.signals[k].weight = Rat(WeightPct(k), 100)
              /\ tresult.score = ExpectedScore(values)
              /\ tresult.confidence = Rat(Cardinality(NonNull(values)), 6)
    /\ FinalScore(AllNull) = <<1, 2>>
    /\ _calculate_confidence(AllNull) = <<0, 1>>

\* A result over four of the six signals: velocity and created_at unknown.
C7_Witness ==
    /\ Scored
    /\ tresult.signals["velocity_pattern"].value = None
    /\ tresult.signals["temporal_consistency"].value = None
    /\ tresult.signals["content_quality"].value = Val(Rat(9, 10))
    /\ tresult.confidence = <<2, 3>>

VelocityTable(n, d) ==
    IF 10 * n < d THEN <<"val", 4, 5>>
    ELSE IF n < d THEN <<"val", 9, 10>>
    ELSE IF n < 10 * d THEN <<"val", 3, 5>>
    ELSE <<"val", 3, 10>>

\* C8: the velocity_pattern signal is 0.8 below 0.1, 0.9 from 0.1 up to 1.0,
\* 0.6 from 1.0 up to 10.0, 0.3 from 10.0 on, null when the velocity is
\* unknown; 0.09, 0.99, 9.99 and 10.01 give 0.8, 0.9, 0.6 and 0.3.
C8_VelocityPattern ==
    Scored =>
        LET v   == story.velocity
            sig == tresult.signals["velocity_pattern"].value
        IN  /\ v = None => sig = None
            /\ v[1] = "val" => sig = VelocityTable(v[2], v[3])
            /\ v = <<"val", 9, 100>>     => sig = <<"val", 4, 5>>
            /\ v = <<"val", 99, 100>>    => sig = <<"val", 9, 10>>
            /\ v = <<"val", 999, 100>>   => sig = <<"val", 3, 5>>
            /\ v = <<"val", 1001, 100>>  => sig = <<"val", 3, 10>>

\* A story scored at the threshold velocity 0.1.
C8_Witness ==
    /\ Scored
    /\ story.velocity = <<"val", 1, 10>>
    /\ tresult.signals["velocity_pattern"].value = <<"val", 9, 10>>

LengthTable(L) ==
    IF L < 50 THEN <<"val", 2, 5>>
    ELSE IF L < 200 THEN <<"val", 3, 5>>
    ELSE IF L < 1000 THEN <<"val", 4, 5>>
    ELSE <<"val", 9, 10>>

\* C9: the content_quality signal depends only on the description length L:
\* 0.4 for L < 50, 0.6 for 50 <= L < 200, 0.8 for 200 <= L < 1000, 0.9 for
\* L >= 1000, a None description counting as length 0; lengths 49, 199,
\* 999 and 1000 give 0.4, 0.6, 0.8 and 0.9.
C9_ContentQuality ==
    Scored =>
        LET d   == story.description
            sig == tresult.signals["content_quality"].value
        IN  /\ d[1] = "none" => sig = LengthTable(0)
            /\ d[1] = "str" => sig = LengthTable(Len(d[2]))
            /\ d[1] = "str" /\ Len(d[2]) = 49   => sig = <<"val", 2, 5>>
            /\ d[1] = "str" /\ Len(d[2]) = 199  => sig = <<"val", 3, 5>>
            /\ d[1] = "str" /\ Len(d[2]) = 999  => sig = <<"val", 4, 5>>
            /\ d[1] = "str" /\ Len(d[2]) = 1000 => sig = <<"val", 9, 10>>

\* A story scored with a description of exactly 200 characters.
C9_Witness ==
    /\ Scored
    /\ story.description[1] = "str"
    /\ Len(story.description[2]) = 200
    /\ tresult.signals["content_quality"].value = <<"val", 4, 5>>

\* C10: a story whose description, velocity and created_at are all None
\* gets the default error response: score 0.5, score_percentage 50.0,
\* confidence 0.0 and the explanation 'Error calculating trust score'.
C10_InvalidStoryDegrades ==
    /\ tpc = "done"
    /\ story.id # Missing
    /\ story.description = NoDesc
    /\ story.velocity = None
    /\ story.created_at = None
    => IsDegraded(tresult)

----------------------------------------------------------------------------
(* Properties of TrustScorer.detect_bots.                                  *)

\* The malformed records: a None entry, or a dict whose author or content
\* is None.
MalformedRecord(post) ==
    \/ post.isNone
    \/ post.author = "<None>"
    \/ post.content[1] = "none"

WellFormedRecords(ps) == SelectSeq(ps, LAMBDA post : ~MalformedRecord(post))

\* C4: detect_bots never raises, and a malformed record of the batch (a
\* None entry, a record whose author or content is None) is skipped: the
\* result's bot_probability, suspicious_accounts and total_accounts_analyzed
\* are those of the analysis of the remaining well-formed records.
C4_MalformedRecordSkipped ==
    bpc = "done" =>
        LET expected == detect_bots_result(WellFormedRecords(bposts))
        IN  /\ bresult.bot_probability = expected.bot_probability
            /\ bresult.suspicious_accounts = expected.suspicious_accounts
            /\ "total_accounts_analyzed" \in expected.keys =>
                  /\ "total_accounts_analyzed" \in bresult.keys
                  /\ bresult.total_accounts_analyzed =
                         expected.total_accounts_analyzed

----------------------------------------------------------------------------
(* Properties of TrendDetector.detect_trends.                              *)

Detected == dpc = "done" /\ dresult.status = "returned"

\* C1: the list detect_trends returns is sorted non-increasing by score,
\* has at most 50 entries, and every entry has 20 <= score <= 100.
C1_RankedOutput ==
    Detected =>
        LET r == dresult.trends
        IN  /\ Len(r) <= 50
            /\ \A i \in 1..Len(r) :
                   /\ 20 * r[i].score[2] <= r[i].score[1]
                   /\ r[i].score[1] <= 100 * r[i].score[2]
            /\ \A i \in 1..Len(r) : \A j \in i..Len(r) :
                   r[j].score[1] * r[i].score[2] <= r[i].score[1] * r[j].score[2]

\* More than 50 candidates pass the filter, of two different scores, the
\* lower-scored ones found first: the result is cut to 50 and reordered.
C1_Witness ==
    /\ Detected
    /\ Len(dresult.trends) = 50
    /\ Len(SelectSeq(detected_trends,
                     LAMBDA tr : 20 * tr.score[2] <= tr.score[1])) > 50
    /\ dresult.trends[1].score # dresult.trends[50].score
    /\ \E i \in 1..Len(detected_trends) : \E j \in 1..Len(detected_trends) :
           /\ i < j
           /\ 20 * detected_trends[i].score[2] <= detected_trends[i].score[1]
           /\ RLt(detected_trends[i].score, detected_trends[j].score)

MalformedPost(post) == post.posted_at[1] \in {"none", "bad"}

WithoutMalformed(ps) == SelectSeq(ps, LAMBDA post : ~MalformedPost(post))

\* C5: a single malformed post of the batch (posted_at missing or
\* unparsable) is dropped and the rest is processed: detect_trends returns
\* the trends of the batch without that post rather than an empty list.
C5_MalformedPostDropped ==
    /\ Detected
    /\ Len(WithoutMalformed(posts)) = Len(posts) - 1
    => \E tie \in BOOLEAN :
          \E communities \in CommunityChoices(WithoutMalformed(posts)) :
              dresult.trends = DetectTrends(WithoutMalformed(posts), tie, communities)

\* C6: for every batch of fewer than 10 posts detect_trends returns an
\* empty list, and runs none of its analysis steps.
C6_SmallBatchEmpty ==
    Len(posts) < 10 /\ unit = "trends" =>
        /\ dpc \in {"start", "done"}
        /\ dpc = "done" => dresult.status = "returned" /\ dresult.trends = <<>>

\* Nine posts that carry the same hashtag three times each, 27 mentions
\* of it, and still no trend.
C6_Witness ==
    /\ Detected
    /\ Len(posts) = 9
    /\ \A i \in 1..9 : posts[i].hashtags = <<"h1", "h1", "h1">>
    /\ dresult.trends = <<>>

----------------------------------------------------------------------------
(* Properties of the accounts detect_bots flags.                           *)

Analysed == bpc = "done" /\ bresult.analysis = "analyzed"

\* Every post of the batch is a complete record of a named author.
PlainRecords(ps) ==
    \A i \in 1..Len(ps) :
        /\ ~ps[i].isNone
        /\ ps[i].author \notin {"<absent>", "<None>"}
        /\ ps[i].engagement = "dict"
        /\ ps[i].content[1] = "str"

Authors(ps) == {ps[i].author : i \in 1..Len(ps)}
PostsOf(ps, a) == {i \in 1..Len(ps) : ps[i].author = a}
Texts(ps) == {ps[i].content : i \in 1..Len(ps)}

\* likes/retweets below 0.1 or above 10; between them.
AnomalousRatio(post) ==
    /\ post.retweets > 0
    /\ (10 * post.likes < post.retweets \/ post.likes > 10 * post.retweets)
OrdinaryRatio(post) ==
    /\ post.retweets > 0
    /\ 10 * post.likes >= post.retweets
    /\ post.likes <= 10 * post.retweets

\* Every account posts exactly once, with an anomalous ratio.
OncePerAccountAnomalous(ps) ==
    /\ ps # <<>>
    /\ PlainRecords(ps)
    /\ Cardinality(Authors(ps)) = Len(ps)
    /\ \A i \in 1..Len(ps) : AnomalousRatio(ps[i])

\* C11: an anomalous engagement ratio alone flags an account: when every
\* account posts once with a likes/retweets ratio below 0.1 or above 10,
\* suspicious_accounts is non-empty, every listed suspicion_score and
\* bot_probability exceed 0.5; with 15 such accounts sharing one text,
\* bot_probability > 0.7, coordinated_campaign holds and more than 5
\* accounts are listed.
C11_RatioAloneFlags ==
    bpc = "done" /\ OncePerAccountAnomalous(bposts) =>
        /\ bresult.suspicious_accounts # <<>>
        /\ \A k \in 1..Len(bresult.suspicious_accounts) :
               RLt(Rat(1, 2), bresult.suspicious_accounts[k].suspicion_score)
        /\ RLt(Rat(1, 2), bresult.bot_probability)
        /\ Len(bposts) = 15 /\ Cardinality(Texts(bposts)) = 1 =>
               /\ RLt(Rat(7, 10), bresult.bot_probability)
               /\ bresult.coordinated_campaign
               /\ Len(bresult.suspicious_accounts) > 5

\* One account, more than 10 posts, each with created_at, an ordinary
\* ratio and a text of its own.
OneFrequentAccount(ps) ==
    /\ PlainRecords(ps)
    /\ Len(ps) > 10
    /\ Cardinality(Authors(ps)) = 1
    /\ \A i \in 1..Len(ps) : ps[i].has_created_at /\ OrdinaryRatio(ps[i])
    /\ Cardinality(Texts(ps)) = Len(ps)

\* C12: high posting frequency alone flags an account: one account with
\* more than 10 timestamped posts, an ordinary engagement ratio and unique
\* content is listed in suspicious_accounts with post_count equal to its
\* number of posts, and bot_probability > 0.6.
C12_FrequencyAloneFlags ==
    bpc = "done" /\ OneFrequentAccount(bposts) =>
        /\ \E k \in 1..Len(bresult.suspicious_accounts) :
               /\ bresult.suspicious_accounts[k].account = bposts[1].author
               /\ bresult.suspicious_accounts[k].post_count = Len(bposts)
        /\ RLt(Rat(6, 10), bresult.bot_probability)

\* 20 authors posting once each, ratio 1.0, every text different.
TwentyOrganic(ps) ==
    /\ PlainRecords(ps)
    /\ Len(ps) = 20
    /\ Cardinality(Authors(ps)) = 20
    /\ \A i \in 1..Len(ps) : ps[i].retweets > 0 /\ ps[i].likes = ps[i].retweets
    /\ Cardinality(Texts(ps)) = Len(ps)

\* 20 authors posting more than 10 times each, every ratio above 10, at
\* least nine posts in ten carrying one and the same text.
TwentyBots(ps) ==
    /\ PlainRecords(ps)
    /\ Cardinality(Authors(ps)) = 20
    /\ \A a \in Authors(ps) : Cardinality(PostsOf(ps, a)) > 10
    /\ \A i \in 1..Len(ps) : ps[i].retweets > 0 /\ ps[i].likes > 10 * ps[i].retweets
    /\ \E c \in Texts(ps) :
           10 * Cardinality({i \in 1..Len(ps) : ps[i].content = c}) >= 9 * Len(ps)

\* C13: 20 distinct authors posting once each with ratio 1.0 and unique
\* content give bot_probability < 0.3 and no coordinated campaign; 20
\* authors posting more than 10 times each with ratio above 10 and 90%
\* duplicate content give bot_probability > 0.7 and a coordinated campaign.
C13_TwentyAuthorBatches ==
    /\ bpc = "done" /\ TwentyOrganic(bposts) =>
           /\ RLt(bresult.bot_probability, Rat(3, 10))
           /\ ~bresult.coordinated_campaign
    /\ bpc = "done" /\ TwentyBots(bposts) =>
           /\ RLt(Rat(7, 10), bresult.bot_probability)
           /\ bresult.coordinated_campaign

\* The 20-bot batch analysed, none of its posts timestamped.
C13_Witness ==
    /\ Analysed
    /\ TwentyBots(bposts)
    /\ \A i \in 1..Len(bposts) : ~bposts[i].has_created_at
    /\ bresult.bot_probability = <<1, 1>>

\* The accounts of the batch a suspicion score above 0.5 falls on, in the
\* order in which their first posts appear.
FirstPost(ps, a) == CHOOSE i \in PostsOf(ps, a) : \A j \in PostsOf(ps, a) : i <= j

FlaggedAccounts(ps) ==
    LET stats == CollectStats(ps).stats
    IN  {a \in Authors(ps) : RLt(Rat(1, 2), SuspicionScore(stats[a]))}

FlaggedInOrder(ps) ==
    LET firsts == SortedSeqOf({FirstPost(ps, a) : a \in FlaggedAccounts(ps)})
    IN  [k \in 1..Len(firsts) |-> ps[firsts[k]].author]

----------------------------------------------------------------------------
(* Confidence of a trust score.                                            *)

----------------------------------------------------------------------------
(* Repeated calls.                                                         *)

----------------------------------------------------------------------------
(* Coordination of a community's posts.                                    *)

CommunityPosts(ps, comm) ==
    SelectSeq([i \in 1..Len(ps) |-> i], LAMBDA i : ps[i].author_username \in comm)

\* The communities whose coordination detect_trends computes.
ScoredCommunities ==
    IF Cardinality(Nodes(posts)) > 10
    THEN {comm \in partition : /\ Cardinality(comm) >= 5
                               /\ Len(CommunityPosts(posts, comm)) >= min_mentions}
    ELSE {}

\* All gaps between consecutive sorted timestamps are equal.
EvenlySpaced(ps, members) ==
    /\ \A k \in 1..Len(members) : ~ParseRaises(ps[members[k]]) /\ ~NoTime(ps[members[k]])
    /\ Len(members) >= 2
    /\ LET ts == SortAsc([k \in 1..Len(members) |-> TimeOf(ps[members[k]])])
       IN  \A k \in 1..(Len(ts) - 1) : ts[k + 1] - ts[k] = ts[2] - ts[1]

\* C16: the coordination score of a set of posts is max(0, 1 - min(cv, 1)),
\* cv the standard deviation over the mean of the gaps between the sorted
\* timestamps, and it is 1.0 whenever all the gaps are equal.
C16_EvenGapsScoreOne ==
    unit = "trends" /\ dpc = "combine" =>
        \A comm \in ScoredCommunities :
            LET members == CommunityPosts(posts, comm)
                score == _calculate_coordination_score(posts, members)
            IN  EvenlySpaced(posts, members) => score = <<"cv2", <<0, 1>>>>


----------------------------------------------------------------------------
(* Velocity of a content cluster.                                          *)

\* Hours between the earliest and the latest post of a cluster.
TimeSpanHours(ps, members) ==
    LET ts == SortAsc([k \in 1..Len(members) |-> TimeOf(ps[members[k]])])
    IN  Rat(ts[Len(ts)] - ts[1], 60)

\* C20: every content cluster the clusterer emits has
\* velocity = member_count / max(time_span_hours, 0.1), time_span_hours the
\* span between its earliest and latest post; 10 posts within 6 minutes
\* have velocity 100 posts/hour.
C20_ClusterVelocity ==
    unit = "trends" /\ dpc = "keywords" =>
        \A k \in 1..Len(content_clusters) :
            LET cluster == content_clusters[k]
                time_span_hours == TimeSpanHours(posts, cluster.members)
            IN  cluster.velocity =
                    RDiv(RInt(Len(cluster.members)),
                         RMax(time_span_hours, Rat(1, 10)))


----------------------------------------------------------------------------
(* Properties of TrustScorer.update_with_correlation.                      *)

Updated == unit = "correlation" /\ upc = "done"

\* C18: update_with_correlation never raises on invalid input: it returns
\* the fallback trust score, the article's trust_score or 0.5 by default;
\* for article None and correlation None it returns 0.5, and for any two
\* dicts it returns a value in [0, 1].
C18_NeverRaises ==
    Updated =>
        /\ uresult.status = "returned"
        /\ uresult.caught =>
              uresult.value = (IF article.isdict /\ article.value # Missing
                               THEN article.value ELSE Val(Rat(1, 2)))
        /\ ~article.isdict /\ ~correlation.isdict
              => uresult.value = Val(Rat(1, 2))
        /\ article.isdict /\ correlation.isdict
              => IsVal(uresult.value) /\ InUnit(Num(uresult.value))

----------------------------------------------------------------------------
(* Properties of TrendDetector._calculate_trend_score.                     *)

\* The score with the coordination penalty applied to the running total
\* after the type bonus.
PenaltyAfterBonus(tr) ==
    LET mentions == RMul(RMin(Rat(tr.mention_count, 100), RInt(1)), RInt(30))
        speed == RMul(RMin(RDiv(tr.velocity, RInt(50)), RInt(1)), RInt(25))
        accel == IF RLt(RInt(0), tr.acceleration)
                 THEN RMul(RMin(RDiv(tr.acceleration, RInt(20)), RInt(1)), RInt(20))
                 ELSE RInt(0)
        spread == RMul(RMin(Rat(tr.nplatforms, 4), RInt(1)), RInt(15))
        bonus == IF tr.type = "content_cluster" THEN RInt(10)
                 ELSE IF tr.type = "velocity_spike" THEN RInt(15)
                 ELSE RInt(0)
        R == RAdd(RAdd(RAdd(RAdd(mentions, speed), accel), spread), bonus)
        penalised == IF "coordination_score" \in tr.fields
                        /\ RLt(tr.cv2, Rat(4, 100))
                     THEN RMul(R, Rat(1, 2)) ELSE R
    IN  RMax(RInt(0), RMin(penalised, RInt(100)))

----------------------------------------------------------------------------
(* Properties of TrendDetector._group_posts_by_time.                       *)

Grouped == unit = "group" /\ gpc = "done" /\ gresult.status = "returned"

\* C21: for every window granularity g, each post is in exactly one window,
\* each window holds exactly the posts whose timestamp falls in
\* [start, start + g), and distinct windows do not overlap.
C21_WindowsPartition ==
    Grouped =>
        LET windows == gresult.windows
            g == granularity
        IN  /\ \A i \in 1..Len(gposts) :
                  Cardinality({w \in DOMAIN windows : i \in SeqRange(windows[w])}) = 1
            /\ \A w \in DOMAIN windows :
                  SeqRange(windows[w]) =
                      {i \in 1..Len(gposts) :
                          w <= TimeOf(gposts[i]) /\ TimeOf(gposts[i]) < w + g}
            /\ \A w \in DOMAIN windows : \A v \in DOMAIN windows :
                  w < v => w + g <= v


----------------------------------------------------------------------------
(* Properties of TrendDetector._analyze_velocity.                          *)

VelocityDone == unit = "trends" /\ dpc = "network"

WindowCounts == [w \in DOMAIN temporal_groups |-> Len(temporal_groups[w])]

RECURSIVE SumOver(_, _)
SumOver(f, S) ==
    IF S = {} THEN 0
    ELSE LET x == CHOOSE y \in S : TRUE IN f[x] + SumOver(f, S \ {x})

\* count > mean + 2 * stddev, with the population standard deviation, in
\* exact arithmetic: for n counts of sum S and sum of squares Q,
\* n*count - S > 2 * sqrt(n*Q - S^2).
AboveTwoSigma(count, counts) ==
    LET n == Cardinality(DOMAIN counts)
        S == SumOver(counts, DOMAIN counts)
        Q == SumOver([w \in DOMAIN counts |-> counts[w] * counts[w]], DOMAIN counts)
    IN  /\ n * count - S > 0
        /\ (n * count - S) * (n * count - S) > 4 * (n * Q - S * S)

SpikeWindows == {velocity_trends[k].window : k \in 1..Len(velocity_trends)}

\* C22: the velocity-spike detector emits nothing for fewer than 3 windows;
\* otherwise a window is emitted as a spike if and only if its post count
\* is strictly greater than mean + 2 * (population standard deviation) of
\* all window counts and at least velocity_threshold, and each spike
\* carries spike_ratio = count / mean.
C22_SpikeRule ==
    VelocityDone =>
        LET counts == WindowCounts
            n == Cardinality(DOMAIN counts)
            S == SumOver(counts, DOMAIN counts)
        IN  /\ n < 3 => velocity_trends = <<>>
            /\ n >= 3 =>
                  \A w \in DOMAIN counts :
                      w \in SpikeWindows <=>
                          /\ AboveTwoSigma(counts[w], counts)
                          /\ counts[w] >= velocity_threshold
            /\ \A k \in 1..Len(velocity_trends) :
                  LET spike == velocity_trends[k]
                  IN  /\ spike.type = "velocity_spike"
                      /\ spike.spike_ratio = Rat(counts[spike.window] * n, S)

\* C29: a batch whose posts fall into 3, 4 or 5 time windows gives no
\* velocity spike, whatever the counts of the windows are: a velocity_spike
\* trend requires at least 6 distinct windows.
C29_NoSpikeBelowSixWindows ==
    VelocityDone =>
        (Cardinality(DOMAIN temporal_groups) <= 5 => velocity_trends = <<>>)


----------------------------------------------------------------------------
(* The suspicion score of an author.                                       *)

\* The score read off the batch: 0.3 for more than 10 posts, 0.4 for a mean
\* likes/retweets ratio, over the posts with retweets > 0, below 0.1 or
\* above 10, 0.2 for more than 5 posts with a timestamp.
AuthorScore(ps, a) ==
    LET mine   == SortedSeqOf(PostsOf(ps, a))
        rated  == SelectSeq(mine, LAMBDA i : ps[i].retweets > 0)
        total  == RSum([k \in 1..Len(rated) |->
                           Rat(ps[rated[k]].likes, ps[rated[k]].retweets)])
        stamps == Len(SelectSeq(mine, LAMBDA i : ps[i].has_created_at))
        anomalous == /\ rated # <<>>
                     \* mean < 1/10 or mean > 10, the mean being total/Len(rated)
                     /\ \/ RLt(RMul(total, RInt(10)), RInt(Len(rated)))
                        \/ RLt(RInt(10 * Len(rated)), total)
    IN  RAdd(RAdd(IF Len(mine) > 10 THEN Rat(3, 10) ELSE RInt(0),
                  IF anomalous THEN Rat(4, 10) ELSE RInt(0)),
             IF stamps > 5 THEN Rat(2, 10) ELSE RInt(0))

ListedAccounts == {bresult.suspicious_accounts[k].account :
                      k \in 1..Len(bresult.suspicious_accounts)}

----------------------------------------------------------------------------
(* The bot probability of a batch.                                         *)

SuspiciousCount(ps) ==
    Cardinality({a \in Authors(ps) : RLt(Rat(1, 2), AuthorScore(ps, a))})

\* The number of coordination indicators: more than 5 suspicious accounts;
\* fewer distinct first-50-character contents than 70% of the posts.
Indicators(ps) ==
    (IF SuspiciousCount(ps) > 5 THEN 1 ELSE 0)
    + (IF 10 * Cardinality({Prefix(c[2], 50) : c \in Texts(ps)}) < 7 * Len(ps)
       THEN 1 ELSE 0)

\* min(1, suspicious_count / max(total_accounts, 1) + 0.3 * k)
BoostedShare(ps) ==
    RMin(RInt(1),
         RAdd(Rat(SuspiciousCount(ps), Cardinality(Authors(ps))),
              Rat(3 * Indicators(ps), 10)))

-----------------------------------------------------------------------------
(* Properties of TrendDetector._analyze_keyword_trends.                    *)

KeywordsDone == unit = "trends" /\ dpc = "velocity"

\* The sorted timestamps (minutes) of the occurrences of a term in a field.
TermTimes(field, term) ==
    SortAsc(Flatten([i \in 1..Len(posts) |->
        [j \in 1..Cardinality({k \in 1..Len(posts[i][field]) :
                                  posts[i][field][k] = term})
            |-> TimeOf(posts[i])]]))

\* count / max(time_span_hours, 1) of a sorted list of minutes.
MentionsPerHour(ts) ==
    LET span == ts[Len(ts)] - ts[1]
    IN  IF span <= 60 THEN RInt(Len(ts)) ELSE Rat(60 * Len(ts), span)

HalvesDifference(ts) ==
    LET count == Len(ts)
        half == count \div 2
    IN  IF count >= 4
        THEN RSub(MentionsPerHour([k \in 1..(count - half) |-> ts[half + k]]),
                  MentionsPerHour([k \in 1..half |-> ts[k]]))
        ELSE RInt(0)

EmittedFor(term_type, term) ==
    {k \in 1..Len(keyword_trends) :
        /\ keyword_trends[k].type = term_type \o "_trend"
        /\ keyword_trends[k].term = term}

TermRule(field, term_type) ==
    \A term \in UNION {SeqRange(posts[i][field]) : i \in 1..Len(posts)} :
        LET ts == TermTimes(field, term)
            count == Len(ts)
            emitted == EmittedFor(term_type, term)
            due == /\ count >= min_mentions
                   /\ RLe(RInt(velocity_threshold), MentionsPerHour(ts))
        IN  /\ Cardinality(emitted) = IF due THEN 1 ELSE 0
            /\ \A k \in emitted :
                  /\ keyword_trends[k].mention_count = count
                  /\ keyword_trends[k].velocity = MentionsPerHour(ts)
                  /\ keyword_trends[k].acceleration = HalvesDifference(ts)

\* C25: for every keyword and, independently, every hashtag, a term trend is
\* emitted exactly when the term occurs at least min_mentions times and its
\* velocity, count / max(time_span_hours, 1), is at least velocity_threshold;
\* its acceleration is the velocity of the later half minus that of the
\* earlier half of the sorted timestamps split at count // 2 when count >= 4,
\* else 0.
C25_TermTrendRule ==
    KeywordsDone => TermRule("keywords", "keyword") /\ TermRule("hashtags", "hashtag")

\* A hashtag trend with a non-zero acceleration next to the keyword trend.
C25_Witness ==
    /\ KeywordsDone
    /\ \E k \in 1..Len(keyword_trends) :
          /\ keyword_trends[k].type = "hashtag_trend"
          /\ keyword_trends[k].mention_count >= 4
          /\ keyword_trends[k].acceleration # RInt(0)
    /\ \E k \in 1..Len(keyword_trends) : keyword_trends[k].type = "keyword_trend"



-----------------------------------------------------------------------------
(* The fan-in of detect_trends.                                            *)

\* The vectorizer cannot build a vocabulary: no text occurs twice.
VocabularyFails(ps) ==
    /\ Len(ps) >= 3
    /\ \A i \in 1..Len(ps) :
          ps[i].content = "" \/ \A j \in 1..Len(ps) : ps[j].content = ps[i].content => j = i

Aggregating == unit = "trends" /\ (dpc = "rank" \/ (Detected /\ temporal_groups # <<>>))

BeforeAggregation ==
    unit = "trends" /\ dpc \in {"start", "cluster", "keywords", "velocity", "network", "combine"}

\* The scored candidates of the four lists that pass the score filter.
Qualifying ==
    LET candidates == content_clusters \o keyword_trends
                        \o velocity_trends \o network_trends
    IN  {k \in 1..Len(candidates) :
            RLe(RInt(TrendFloor), _calculate_trend_score(candidates[k]))}

WithScore(tr) ==
    [tr EXCEPT !.score = _calculate_trend_score(tr),
                      !.fields = @ \cup {"score"}]

\* C26: the aggregation starts only after the four detector passes have
\* returned, and a pass that fails internally contributes an empty list
\* while the candidates of the other passes are scored, filtered and
\* returned.
C26_FanIn ==
    /\ BeforeAggregation => detected_trends = <<>>
    /\ Aggregating =>
          /\ content_clusters = _cluster_content(posts)
          /\ keyword_trends = _analyze_keyword_trends(posts)
          /\ velocity_trends = _analyze_velocity(temporal_groups, rounding)
          /\ network_trends = _analyze_network_patterns(posts, partition)
          /\ VocabularyFails(posts) => content_clusters = <<>>
          /\ Len(detected_trends) = Len(content_clusters) + Len(keyword_trends)
                                      + Len(velocity_trends) + Len(network_trends)
    /\ Detected /\ temporal_groups # <<>> =>
          LET candidates == content_clusters \o keyword_trends
                              \o velocity_trends \o network_trends
          IN  /\ \A k \in 1..Len(dresult.trends) :
                    \E c \in Qualifying : dresult.trends[k] = WithScore(candidates[c])
              /\ Len(dresult.trends) =
                    IF Cardinality(Qualifying) < TrendCap
                    THEN Cardinality(Qualifying) ELSE TrendCap
              /\ Cardinality(Qualifying) <= TrendCap =>
                    \A c \in Qualifying :
                        \E k \in 1..Len(dresult.trends) :
                            dresult.trends[k] = WithScore(candidates[c])

\* The clustering failed on a batch of texts that are all different, and
\* the term trends and a velocity spike of the same run are returned.
C26_Witness ==
    /\ Detected
    /\ VocabularyFails(posts)
    /\ content_clusters = <<>>
    /\ \E k \in 1..Len(dresult.trends) : dresult.trends[k].type = "hashtag_trend"
    /\ \E k \in 1..Len(dresult.trends) : dresult.trends[k].type = "velocity_spike"



-----------------------------------------------------------------------------
(* Properties of IngestionManager._detect_trends.                          *)

Copies(log, trend_data) ==
    Cardinality({k \in 1..Len(log) : log[k] = trend_data})

RunsThatFound(trend_data) ==
    {d \in 1..Len(detections) :
        \E j \in 1..Len(detections[d].trends) :
            detections[d].trends[j] = trend_data}

\* C27: nothing enforces at-most-once processing of a window of posts:
\* every run of detect_trends stores every trend it returns, so a trend is
\* stored as often as there were runs that found it, whichever task ran
\* them and whatever was stored before.
C27_StoredOncePerRun ==
    unit = "ingest" =>
        \A d \in 1..Len(detections) :
            \A j \in 1..Len(detections[d].trends) :
                Copies(stored, detections[d].trends[j])
                    = Cardinality(RunsThatFound(detections[d].trends[j]))

\* Two _detect_trends tasks, from two start_collection calls, both still
\* running, have each run detect_trends over the same posts, and a trend
\* of that batch has been stored twice.
C27_Witness ==
    /\ unit = "ingest"
    /\ running
    /\ \A l \in Loops : ipc[l] \notin {"none", "exit"}
    /\ \E d1, d2 \in 1..Len(detections) :
          /\ detections[d1].task # detections[d2].task
          /\ detections[d1].posts = detections[d2].posts
          /\ \E j \in 1..Len(detections[d1].trends) :
                Copies(stored, detections[d1].trends[j]) = 2

-----------------------------------------------------------------------------
(* What detect_trends leaves of its arguments.                             *)

\* C28: detect_trends leaves its input batch unchanged, no post of it is
\* modified, and the detector's thresholds min_mentions,
\* velocity_threshold and similarity_threshold keep their values.
C28_InputAndThresholdsKept ==
    [][unit = "trends" => posts' = posts /\ config' = config]_vars

\* A run over a batch of posts that carry ISO strings has parsed them,
\* clustered the posts and returned trends.
C28_Witness ==
    /\ Detected
    /\ \A i \in 1..Len(posts) : posts[i].posted_at[1] = "str"
    /\ config = Thresholds
    /\ \E k \in 1..Len(dresult.trends) : dresult.trends[k].type = "content_cluster"



-----------------------------------------------------------------------------
(* Coordinated networks in the output of detect_trends.                    *)

NetworkCandidates ==
    {k \in 1..Len(detected_trends) :
        detected_trends[k].type = "coordinated_network"}

\* C30: a coordinated_network candidate has none of the keys mention_count,
\* velocity, acceleration and platforms, so its score is 0 and the filter
\* score >= 20 removes it: no list detect_trends returns has an entry of
\* type coordinated_network.
C30_NetworkNeverReturned ==
    unit = "trends" =>
        /\ \A k \in 1..Len(network_trends) :
              /\ network_trends[k].type = "coordinated_network"
              /\ network_trends[k].fields
                    \cap {"mention_count", "velocity", "acceleration", "platforms"} = {}
        /\ \A k \in NetworkCandidates : detected_trends[k].score = RInt(0)
        /\ \A k \in 1..Len(dresult.trends) :
              dresult.trends[k].type # "coordinated_network"

\* The network analysis found a coordinated community, the run returned
\* other trends, and the community is not among them.
C30_Witness ==
    /\ Detected
    /\ NetworkCandidates # {}
    /\ dresult.trends # <<>>
    /\ \A k \in 1..Len(dresult.trends) :
          dresult.trends[k].type # "coordinated_network"


=============================================================================
